---- MODULE Spec2Model ----
(***************************************************************************)
(* TuiChain: the loan life cycle (truffle/contracts/TuiChainLoan.sol) as   *)
(* driven through the controller (truffle/contracts/TuiChainController.sol)*)
(* over the Dai ledger and the loan's own ERC-20 token, and the market     *)
(* (TuiChainMarket, TuiChainMarketLib) on which the loan's tokens are sold.*)
(*                                                                         *)
(* One loan, created by the controller, is modelled.  Every external call  *)
(* is one atomic step: a call that reverts leaves every contract variable  *)
(* and every balance as it was and is recorded in `last` with ok = FALSE.  *)
(*                                                                         *)
(* Amounts are unsigned integers.  TLC's integers are 32 bits wide, so the *)
(* two large program constants are represented by small ones: AttoPerDai   *)
(* stands for 1e18 and MaxUint256 for 2^256 - 1.  All arithmetic goes       *)
(* through the SafeMath operators, which revert instead of wrapping.       *)
(***************************************************************************)
EXTENDS Integers, Sequences, FiniteSets, TLC

(* ------------------------------ bounds --------------------------------- *)

\* Largest requested loan value, in whole Dai, that createLoan is given.
MaxRequestedDai == 2

\* Largest block timestamp reached (the loan is created at time 0).
MaxTime == 1

\* Dai minted to each user before the loan is created.
InitialDai == 8

(* ------------------------- program constants --------------------------- *)

\* Number of atto-Dai in one Dai (1e18 in the source).
AttoPerDai == 3

\* Largest amount of atto-Dai the conversions are compared on.
MaxAttoDai == 12

\* Largest uint256 value (2^256 - 1 in the source).
MaxUint256 == 127

\* Number of atto-Dai in one nano-Dai (1e9 in the source).
AttoPerNanoDai == 2

(* ------------------------------ addresses ------------------------------ *)

Users == {"alice", "bob"}

\* The controller's owner (Ownable): the privileged operator.
Owner == "operator"

\* The address of the TuiChainController contract, which owns (Ownable) the
\* market and the loans it creates.
Controller == "controller"

\* The address of the TuiChainLoan contract.
Loan == "loan"

\* The address of the TuiChainMarket contract.
Market == "market"

\* The address of the loan's TuiChainToken contract, and the tokens the market
\* is called with.
Token == "token"

Tokens == {Token}

\* The market's immutable feeRecipient.
MarketFeeRecipient == "treasury"

ZeroAddress == "0x0"

\* The addresses that call the contracts or are passed to them as a loan.
Addresses == Users \cup {Owner, Controller, Loan, Market}

\* Everything that can hold Dai.
DaiHolders == Users \cup {Loan, "student", "treasury"}

\* Everything that can hold loan tokens.
TokenHolders == Users \cup {Loan, Market}

\* The values callers pass as _valueAttoDai: zero, two values that are no
\* multiple of 1 Dai, and the whole-Dai values up to the largest requested value.
Values == {0, 1, AttoPerDai + 1} \cup {AttoPerDai * w : w \in 1 .. MaxRequestedDai}

\* The values callers pass as _amountTokens.
Amounts == 0 .. MaxRequestedDai

\* The values callers pass as _priceAttoDaiPerToken: zero, a value that is no
\* multiple of 1 nano-Dai, and one and two nano-Dai.
Prices == {0, 1, AttoPerNanoDai, 2 * AttoPerNanoDai}

\* The values passed as _feeAttoDaiPerNanoDai.
MarketFeeRates == {0, 1}

Phases == {"Funding", "Expired", "Canceled", "Active", "Finalized"}

(* ------------------------------ SafeMath ------------------------------- *)

\* The result of an arithmetic step that reverted.
REVERT == -1

SafeAdd(a, b) ==
    IF a = REVERT \/ b = REVERT THEN REVERT
    ELSE IF a + b > MaxUint256 THEN REVERT ELSE a + b

SafeSub(a, b) ==
    IF a = REVERT \/ b = REVERT THEN REVERT
    ELSE IF b > a THEN REVERT ELSE a - b

\* A multiplication that wraps around 2^256 instead of reverting.
SafeMul_Wrapping(a, b) ==
    IF a = REVERT \/ b = REVERT THEN REVERT
    ELSE (a * b) % (MaxUint256 + 1)

SafeMul(a, b) ==
    IF a = REVERT \/ b = REVERT THEN REVERT
    ELSE IF a * b > MaxUint256 THEN REVERT ELSE a * b

SafeDiv(a, b) ==
    IF a = REVERT \/ b = REVERT THEN REVERT
    ELSE IF b = 0 THEN REVERT ELSE a \div b

SafeMod(a, b) ==
    IF a = REVERT \/ b = REVERT THEN REVERT
    ELSE IF b = 0 THEN REVERT ELSE a % b

\* _attoDaiToPositiveWholeDai: REVERT unless a positive multiple of 1 Dai.
AttoDaiToPositiveWholeDai(attoDai) ==
    IF attoDai > 0 /\ SafeMod(attoDai, AttoPerDai) = 0
    THEN SafeDiv(attoDai, AttoPerDai)
    ELSE REVERT

\* A conversion to nano-Dai that accepts zero as it accepts the multiples of
\* 1 nano-Dai.
AttoDaiToPositiveWholeNanoDai_OrZero(attoDai) ==
    IF SafeMod(attoDai, AttoPerNanoDai) = 0
    THEN SafeDiv(attoDai, AttoPerNanoDai)
    ELSE REVERT

\* A conversion to nano-Dai that accepts every positive amount and truncates.
AttoDaiToPositiveWholeNanoDai_Truncating(attoDai) ==
    IF attoDai > 0 THEN SafeDiv(attoDai, AttoPerNanoDai) ELSE REVERT

\* _attoDaiToPositiveWholeNanoDai: REVERT unless a positive multiple of 1 nano-Dai.
AttoDaiToPositiveWholeNanoDai(attoDai) ==
    IF attoDai > 0 /\ SafeMod(attoDai, AttoPerNanoDai) = 0
    THEN SafeDiv(attoDai, AttoPerNanoDai)
    ELSE REVERT

(* ------------------------------ state ---------------------------------- *)

VARIABLES
    now,                      \* block.timestamp
    feeRecipient,             \* immutable
    loanRecipient,            \* immutable
    expirationTime,           \* immutable
    fundingFeeAttoDaiPerDai,  \* immutable
    paymentFeeAttoDaiPerDai,  \* immutable
    requestedValueDai,        \* immutable
    phase,
    fundedDai,
    paidDai,
    attoDaiPerToken,
    daiBalance,               \* Dai balanceOf
    daiAllowance,             \* Dai allowance[owner] granted to the loan
    tokenBalance,             \* loan token balanceOf
    tokenAllowance,           \* loan token allowance[owner] granted to the loan
    tokenTotalSupply,         \* loan token totalSupply
    tokenIsAllowed,           \* the market's allow-set entry of the loan's token
    netProvidedDai,           \* per funder: sum of FundsProvided - FundsWithdrawn, in Dai
    redeemedAttoDai,          \* sum of the Dai paid out by redeemTokens
    last,                     \* the last external call and its outcome
    recordArguments,          \* whether `last` keeps the arguments of a reverted call
    numLoans,                 \* the controller's loans.length
    loanIsValid,              \* the controller's loanIsValid
    feeAttoDaiPerNanoDai,     \* the market's fee rate
    sellPositions,            \* the market's TuiChainMarketLib.SellPositions
    marketDaiAllowance,       \* Dai allowance[owner] granted to the market
    marketTokenAllowance      \* loan token allowance[owner] granted to the market

config == <<feeRecipient, loanRecipient, expirationTime, fundingFeeAttoDaiPerDai,
            paymentFeeAttoDaiPerDai, requestedValueDai>>

loanVars == <<phase, fundedDai, paidDai, attoDaiPerToken>>

ledgers == <<daiBalance, daiAllowance, tokenBalance, tokenAllowance, tokenTotalSupply,
             marketDaiAllowance, marketTokenAllowance>>

marketVars == <<feeAttoDaiPerNanoDai, sellPositions>>

registry == <<numLoans, loanIsValid>>

history == <<netProvidedDai, redeemedAttoDai>>

vars == <<now, config, loanVars, ledgers, tokenIsAllowed, history, last, recordArguments,
          registry, marketVars>>


(* ------------------------------ ERC-20 --------------------------------- *)

\* The ledgers and the storage as a transaction sees them; ok turns FALSE when a
\* step reverts, log lists the transfers made so far as <<asset, from, to, value>>
\* and seen lists what the party called by each interaction made so far could
\* read of the storage of the loan and of the market.
Begin ==
    [ok |-> TRUE, dai |-> daiBalance, daiAllow |-> daiAllowance,
     tok |-> tokenBalance, tokAllow |-> tokenAllowance,
     supply |-> tokenTotalSupply, log |-> <<>>,
     marketDaiAllow |-> marketDaiAllowance, marketTokAllow |-> marketTokenAllowance,
     positions |-> sellPositions,
     phase |-> phase, fundedDai |-> fundedDai, paidDai |-> paidDai, seen |-> <<>>]

Revert(t) == [t EXCEPT !.ok = FALSE]

\* What a party called in the course of the transaction t, by the interaction
\* at, can read: the phase, fundedDai and paidDai of the loan and the sell
\* positions of the market, as they are stored at that point.
Observed(t, at) ==
    [at |-> at, phase |-> t.phase, fundedDai |-> t.fundedDai, paidDai |-> t.paidDai,
     positions |-> t.positions]

\* A loan whose operations write their effects after their interactions.
StoreLoan_Late(t, newPhase, newFundedDai, newPaidDai) == t

\* The effects of an operation of the loan on its storage, written before its
\* interactions.
StoreLoan(t, newPhase, newFundedDai, newPaidDai) ==
    [t EXCEPT !.phase = newPhase, !.fundedDai = newFundedDai, !.paidDai = newPaidDai]

\* controller.notifyLoanActivation() called by the loan.
Notified(t) ==
    IF ~t.ok THEN t
    ELSE [t EXCEPT !.seen = Append(@, Observed(t, "notifyLoanActivation"))]

\* ERC20._transfer on a balance map: debit the sender, then credit the recipient.
Move(bal, from, to, value) ==
    LET debited == [bal EXCEPT ![from] = @ - value]
    IN  [debited EXCEPT ![to] = @ + value]

\* dai.safeTransfer called by the loan.
DaiTransfer(t, to, value) ==
    IF ~t.ok \/ value = REVERT THEN Revert(t)
    ELSE IF t.dai[Loan] < value THEN Revert(t)
    ELSE [t EXCEPT !.dai = Move(@, Loan, to, value),
                   !.log = Append(@, <<"dai", Loan, to, value>>),
                   !.seen = Append(@, Observed(t, "transfer"))]

\* dai.safeTransferFrom called by the loan, which spends from's allowance.
DaiTransferFrom(t, from, to, value) ==
    IF ~t.ok \/ value = REVERT THEN Revert(t)
    ELSE IF t.dai[from] < value \/ t.daiAllow[from] < value THEN Revert(t)
    ELSE [t EXCEPT !.dai = Move(@, from, to, value),
                   !.daiAllow[from] = @ - value,
                   !.log = Append(@, <<"dai", from, to, value>>),
                   !.seen = Append(@, Observed(t, "transfer"))]

\* token.safeTransfer called by the loan.
TokenTransfer(t, to, value) ==
    IF ~t.ok \/ value = REVERT THEN Revert(t)
    ELSE IF t.tok[Loan] < value THEN Revert(t)
    ELSE [t EXCEPT !.tok = Move(@, Loan, to, value),
                   !.log = Append(@, <<"token", Loan, to, value>>),
                   !.seen = Append(@, Observed(t, "transfer"))]

\* A transferFrom that tests the allowance but not the balance.
TokenTransferFrom_AllowanceOnly(t, from, to, value) ==
    IF ~t.ok \/ value = REVERT THEN Revert(t)
    ELSE IF t.tokAllow[from] < value THEN Revert(t)
    ELSE [t EXCEPT !.tok = Move(@, from, to, value),
                   !.tokAllow[from] = @ - value,
                   !.log = Append(@, <<"token", from, to, value>>),
                   !.seen = Append(@, Observed(t, "transfer"))]

\* token.safeTransferFrom called by the loan, which spends from's allowance.
TokenTransferFrom(t, from, to, value) ==
    IF ~t.ok \/ value = REVERT THEN Revert(t)
    ELSE IF t.tok[from] < value \/ t.tokAllow[from] < value THEN Revert(t)
    ELSE [t EXCEPT !.tok = Move(@, from, to, value),
                   !.tokAllow[from] = @ - value,
                   !.log = Append(@, <<"token", from, to, value>>),
                   !.seen = Append(@, Observed(t, "transfer"))]

\* A burnFrom that tests the allowance but not the balance.
TokenBurnFrom_AllowanceOnly(t, account, amount) ==
    IF ~t.ok \/ amount = REVERT THEN Revert(t)
    ELSE IF t.tokAllow[account] < amount THEN Revert(t)
    ELSE [t EXCEPT !.tokAllow[account] = @ - amount,
                   !.tok[account] = @ - amount,
                   !.supply = @ - amount,
                   !.log = Append(@, <<"token", account, "0x0", amount>>),
                   !.seen = Append(@, Observed(t, "transfer"))]

\* token.burnFrom called by the loan: spends the allowance, then burns.
TokenBurnFrom(t, account, amount) ==
    IF ~t.ok \/ amount = REVERT THEN Revert(t)
    ELSE IF t.tokAllow[account] < amount \/ t.tok[account] < amount THEN Revert(t)
    ELSE [t EXCEPT !.tokAllow[account] = @ - amount,
                   !.tok[account] = @ - amount,
                   !.supply = @ - amount,
                   !.log = Append(@, <<"token", account, "0x0", amount>>),
                   !.seen = Append(@, Observed(t, "transfer"))]

\* dai.safeTransferFrom called by the market, which spends from's allowance.
MarketDaiTransferFrom(t, from, to, value) ==
    IF ~t.ok \/ value = REVERT THEN Revert(t)
    ELSE IF t.dai[from] < value \/ t.marketDaiAllow[from] < value THEN Revert(t)
    ELSE [t EXCEPT !.dai = Move(@, from, to, value),
                   !.marketDaiAllow[from] = @ - value,
                   !.log = Append(@, <<"dai", from, to, value>>),
                   !.seen = Append(@, Observed(t, "transfer"))]

\* token.safeTransfer called by the market.
MarketTokenTransfer(t, to, value) ==
    IF ~t.ok \/ value = REVERT THEN Revert(t)
    ELSE IF t.tok[Market] < value THEN Revert(t)
    ELSE [t EXCEPT !.tok = Move(@, Market, to, value),
                   !.log = Append(@, <<"token", Market, to, value>>),
                   !.seen = Append(@, Observed(t, "transfer"))]

\* A token whose transferFrom looks at the allowance and not at the balance.
MarketTokenTransferFrom_AllowanceOnly(t, from, to, value) ==
    IF ~t.ok \/ value = REVERT THEN Revert(t)
    ELSE IF t.marketTokAllow[from] < value THEN Revert(t)
    ELSE [t EXCEPT !.tok = Move(@, from, to, value),
                   !.marketTokAllow[from] = @ - value,
                   !.log = Append(@, <<"token", from, to, value>>),
                   !.seen = Append(@, Observed(t, "transfer"))]

\* token.safeTransferFrom called by the market, which spends from's allowance.
MarketTokenTransferFrom(t, from, to, value) ==
    IF ~t.ok \/ value = REVERT THEN Revert(t)
    ELSE IF t.tok[from] < value \/ t.marketTokAllow[from] < value THEN Revert(t)
    ELSE [t EXCEPT !.tok = Move(@, from, to, value),
                   !.marketTokAllow[from] = @ - value,
                   !.log = Append(@, <<"token", from, to, value>>),
                   !.seen = Append(@, Observed(t, "transfer"))]

\* Commit the ledgers of a transaction that did not revert.
Commit(t) ==
    /\ daiBalance' = t.dai
    /\ daiAllowance' = t.daiAllow
    /\ tokenBalance' = t.tok
    /\ tokenAllowance' = t.tokAllow
    /\ tokenTotalSupply' = t.supply
    /\ marketDaiAllowance' = t.marketDaiAllow
    /\ marketTokenAllowance' = t.marketTokAllow

\* What the sender of a call could read just before it: fundedDai and the
\* sender's own Dai and token balances.
NoSnapshot == [fundedDai |-> 0, dai |-> 0, tok |-> 0]

Snapshot(sender) ==
    IF sender \in Users
    THEN [fundedDai |-> fundedDai, dai |-> daiBalance[sender], tok |-> tokenBalance[sender]]
    ELSE NoSnapshot

\* What `last` records of a call: the operation, its sender and argument, whether
\* it succeeded, what it returned, the transfers it made, the snapshot taken
\* before it and, for a call that reverted, the reason string of the revert; of a
\* call to the market also its _seller, _priceAttoDaiPerToken and
\* _feeAttoDaiPerNanoDai arguments; of a call that succeeded, what the parties
\* called by its interactions could read of the storage.
Call(op, sender, value, ok, returned, transfers, before) ==
    [op |-> op, sender |-> sender, value |-> value, ok |-> ok,
     returned |-> returned, transfers |-> transfers, before |-> before,
     error |-> "", seller |-> "", price |-> 0, fee |-> 0, args |-> <<>>,
     seen |-> <<>>]

\* The reason strings of the source's require statements.  The reason of a
\* SafeMath or ERC-20 step that reverts inside a call is kept as one string.
WrongPhase == "wrong phase"
NotWholeDai == "not a positive multiple of 1 Dai"
ExceedsRemaining == "_valueAttoDai exceeds remaining requested funding"
AmountIsZero == "_amountTokens is zero"
NotTheOwner == "Ownable: caller is not the owner"
NotALoan == "_loan is not a loan created by this controller"
SenderNotALoan == "message sender is not a loan created by this controller"
SafeMathOrERC20 == "SafeMath or ERC20"

\* A call that fails after its lazy expiration of the loan, and keeps it.
Reverted_ExpirationKept(op, sender, value, error) ==
    /\ last' = IF recordArguments
               THEN [Call(op, sender, value, FALSE, FALSE, <<>>, NoSnapshot)
                        EXCEPT !.error = error]
               ELSE Call(op, "", 0, FALSE, FALSE, <<>>, NoSnapshot)
    /\ phase' = IF phase = "Funding" /\ now >= expirationTime THEN "Expired" ELSE phase
    /\ UNCHANGED <<now, config, fundedDai, paidDai, attoDaiPerToken, ledgers,
                   tokenIsAllowed, history, recordArguments, registry, marketVars>>

\* A call that reverted with reason error: nothing but `last` changes.
Reverted(op, sender, value, error) ==
    /\ last' = IF recordArguments
               THEN [Call(op, sender, value, FALSE, FALSE, <<>>, NoSnapshot)
                        EXCEPT !.error = error]
               ELSE Call(op, "", 0, FALSE, FALSE, <<>>, NoSnapshot)
    /\ UNCHANGED <<now, config, loanVars, ledgers, tokenIsAllowed, history,
                   recordArguments, registry, marketVars>>

\* A call with further arguments args that reverted with reason error.
RevertedWith(op, sender, value, args, error) ==
    /\ last' = IF recordArguments
               THEN [Call(op, sender, value, FALSE, FALSE, <<>>, NoSnapshot)
                        EXCEPT !.error = error, !.args = args]
               ELSE Call(op, "", 0, FALSE, FALSE, <<>>, NoSnapshot)
    /\ UNCHANGED <<now, config, loanVars, ledgers, tokenIsAllowed, history,
                   recordArguments, registry, marketVars>>

(* ------------------------------- loan ---------------------------------- *)

\* _tryExpire without its test of the phase.
TryExpire_AnyPhase ==
    IF now >= expirationTime THEN "Expired" ELSE phase

\* A loan that never expires.
TryExpire_Never == phase

\* _tryExpire: the phase once the loan has been expired if applicable.
TryExpire ==
    IF phase = "Funding" /\ now >= expirationTime THEN "Expired" ELSE phase


\* The funding fee charged on the atto-Dai value instead of on the whole Dai.
FundingFee_OnAttoDai(valueDai) ==
    SafeMul(fundingFeeAttoDaiPerDai, SafeMul(valueDai, AttoPerDai))

\* The funding fee on valueDai whole Dai, in atto-Dai.
FundingFee(valueDai) == SafeMul(fundingFeeAttoDaiPerDai, valueDai)

\* The Dai provideFunds takes from its sender, in atto-Dai, forgetting the fee.
ProvidedAttoDai_NoFee(valueAttoDai, valueDai) == valueAttoDai

\* The Dai provideFunds takes from its sender, in atto-Dai.
ProvidedAttoDai(valueAttoDai, valueDai) == SafeAdd(valueAttoDai, FundingFee(valueDai))

\* The Dai withdrawFunds returns to its sender, in atto-Dai, forgetting the fee.
WithdrawnAttoDai_NoFee(valueAttoDai, valueDai) == valueAttoDai

\* The Dai withdrawFunds returns to its sender, in atto-Dai.
WithdrawnAttoDai(valueAttoDai, valueDai) == SafeAdd(valueAttoDai, FundingFee(valueDai))

\* The requested value forwarded without its conversion to atto-Dai.
LoanValueAttoDai_Unscaled == requestedValueDai

\* The Dai forwarded to the loan recipient on activation, in atto-Dai.
LoanValueAttoDai == SafeMul(requestedValueDai, AttoPerDai)

\* fundedDai == requestedValueDai, for the fundedDai that provideFunds has just set.
FundingComplete(newFundedDai) == newFundedDai = requestedValueDai

\* fundedDai as provideFunds sets it.
FundedAfterProvide(valueDai) == SafeAdd(fundedDai, valueDai)

\* withdrawFunds forgetting to decrease fundedDai.
FundedAfterWithdraw_Unchanged(valueDai) == fundedDai

\* fundedDai as withdrawFunds sets it.
FundedAfterWithdraw(valueDai) == SafeSub(fundedDai, valueDai)

\* withdrawFunds without its test of the phase.
WithdrawPhases_Any == Phases

\* The phases in which withdrawFunds is allowed.
WithdrawPhases == {"Funding", "Expired", "Canceled"}

\* attoDaiPerToken rounded up instead of down.
RedemptionRate_RoundedUp ==
    SafeDiv(SafeAdd(SafeMul(paidDai, AttoPerDai), requestedValueDai - 1), requestedValueDai)

\* attoDaiPerToken computed without the conversion of paidDai to atto-Dai.
RedemptionRate_Unscaled == SafeDiv(paidDai, requestedValueDai)

\* attoDaiPerToken as finalize sets it.
RedemptionRate == SafeDiv(SafeMul(paidDai, AttoPerDai), requestedValueDai)

\* makePayment charging no fee.
PaymentFee_None(valueDai) == 0

\* The payment fee on valueDai whole Dai, in atto-Dai.
PaymentFee(valueDai) == SafeMul(paymentFeeAttoDaiPerDai, valueDai)

\* makePayment without its test of the phase.
PaymentPhases_Any == Phases

\* The phases in which makePayment is allowed.
PaymentPhases == {"Active"}

\* A redemption that pays one Dai for every token, whatever was paid to the loan.
Payout_FaceValue(amountTokens) == SafeMul(AttoPerDai, amountTokens)

\* redeemTokens paying for one token whatever the amount redeemed.
Payout_OneToken(amountTokens) == attoDaiPerToken

\* The Dai redeemTokens pays for amountTokens tokens, in atto-Dai.
Payout(amountTokens) == SafeMul(attoDaiPerToken, amountTokens)

\* market.addToken(token): tokenIsAllowed[token] as it is afterwards.
AddToken == TRUE

\* A market whose removeToken leaves the allow-set as it is.
RemoveToken_Nothing == tokenIsAllowed

\* market.removeToken(token): tokenIsAllowed[token] as it is afterwards.
RemoveToken == FALSE

\* A controller that takes any address for one of its loans.
IsLoanOfController_Any(loan) == TRUE

\* require(loanIsValid[loan]) of the controller's cancelLoan, finalizeLoan and
\* notifyLoanActivation.
IsLoanOfController(loan) == loanIsValid[loan]

\* controller.notifyLoanActivation() called by the loan, which the controller
\* created: market.addToken(loan.token()).
NotifyLoanActivation == AddToken

\* provideFunds(_valueAttoDai) called by sender.
ProvideFunds(sender, valueAttoDai) ==
    LET ph == TryExpire
        valueDai == AttoDaiToPositiveWholeDai(valueAttoDai)
        newFundedDai == FundedAfterProvide(valueDai)
        checks ==
            /\ ph = "Funding"
            /\ valueDai # REVERT
            /\ newFundedDai # REVERT
            /\ newFundedDai <= requestedValueDai
            /\ SafeMul(newFundedDai, AttoPerDai) # REVERT
            /\ FundingComplete(newFundedDai) => IsLoanOfController(Loan)
        completes == FundingComplete(newFundedDai)
        t0 == StoreLoan(Begin, IF completes THEN "Active" ELSE ph, newFundedDai, paidDai)
        t1 == DaiTransferFrom(t0, sender, Loan,
                              ProvidedAttoDai(valueAttoDai, valueDai))
        t2 == TokenTransfer(t1, sender, valueDai)
        t3 == IF completes
              THEN DaiTransfer(t2, loanRecipient, LoanValueAttoDai)
              ELSE t2
        t5 == IF completes
              THEN DaiTransfer(t3, feeRecipient,
                               FundingFee(requestedValueDai))
              ELSE t3
        t4 == IF completes THEN Notified(t5) ELSE t5
    IN  IF checks /\ t4.ok
        THEN /\ fundedDai' = newFundedDai
             /\ phase' = IF completes THEN "Active" ELSE ph
             /\ Commit(t4)
             /\ tokenIsAllowed' = IF completes THEN NotifyLoanActivation
                                  ELSE tokenIsAllowed
             /\ netProvidedDai' = [netProvidedDai EXCEPT ![sender] = @ + valueDai]
             /\ last' = [Call("provideFunds", sender, valueAttoDai, TRUE, FALSE, t4.log,
                           Snapshot(sender)) EXCEPT !.seen = t4.seen]
             /\ UNCHANGED <<recordArguments, registry, marketVars, now, config, paidDai, attoDaiPerToken, redeemedAttoDai>>
        ELSE Reverted("provideFunds", sender, valueAttoDai,
                      IF ph # "Funding" THEN WrongPhase
                      ELSE IF valueDai = REVERT THEN NotWholeDai
                      ELSE IF newFundedDai # REVERT /\ newFundedDai > requestedValueDai
                      THEN ExceedsRemaining
                      ELSE SafeMathOrERC20)

\* withdrawFunds(_valueAttoDai) called by sender.
WithdrawFunds(sender, valueAttoDai) ==
    LET ph == TryExpire
        valueDai == AttoDaiToPositiveWholeDai(valueAttoDai)
        newFundedDai == FundedAfterWithdraw(valueDai)
        checks ==
            /\ ph \in WithdrawPhases
            /\ valueDai # REVERT
            /\ newFundedDai # REVERT
            /\ SafeMul(newFundedDai, AttoPerDai) # REVERT
        t0 == StoreLoan(Begin, ph, newFundedDai, paidDai)
        t1 == DaiTransfer(t0, sender, WithdrawnAttoDai(valueAttoDai, valueDai))
        t2 == TokenTransferFrom(t1, sender, Loan, valueDai)
    IN  IF checks /\ t2.ok
        THEN /\ fundedDai' = newFundedDai
             /\ phase' = ph
             /\ Commit(t2)
             /\ netProvidedDai' = [netProvidedDai EXCEPT ![sender] = @ - valueDai]
             /\ last' = [Call("withdrawFunds", sender, valueAttoDai, TRUE, FALSE, t2.log,
                           Snapshot(sender)) EXCEPT !.seen = t2.seen]
             /\ UNCHANGED <<recordArguments, registry, marketVars, now, config, paidDai, attoDaiPerToken, tokenIsAllowed,
                            redeemedAttoDai>>
        ELSE Reverted("withdrawFunds", sender, valueAttoDai,
                      IF ph \notin WithdrawPhases THEN WrongPhase
                      ELSE IF valueDai = REVERT THEN NotWholeDai
                      ELSE SafeMathOrERC20)

\* makePayment(_valueAttoDai) called by sender.
MakePayment(sender, valueAttoDai) ==
    LET valueDai == AttoDaiToPositiveWholeDai(valueAttoDai)
        newPaidDai == SafeAdd(paidDai, valueDai)
        checks ==
            /\ phase \in PaymentPhases
            /\ valueDai # REVERT
            /\ newPaidDai # REVERT
            /\ SafeMul(newPaidDai, AttoPerDai) # REVERT
        feeAttoDai == PaymentFee(valueDai)
        t0 == StoreLoan(Begin, phase, fundedDai, newPaidDai)
        t1 == DaiTransferFrom(t0, sender, Loan, SafeAdd(valueAttoDai, feeAttoDai))
        t2 == DaiTransfer(t1, feeRecipient, feeAttoDai)
    IN  IF checks /\ t2.ok
        THEN /\ paidDai' = newPaidDai
             /\ Commit(t2)
             /\ last' = [Call("makePayment", sender, valueAttoDai, TRUE, FALSE, t2.log,
                           Snapshot(sender)) EXCEPT !.seen = t2.seen]
             /\ UNCHANGED <<recordArguments, registry, marketVars, now, config, phase, fundedDai, attoDaiPerToken,
                            tokenIsAllowed, history>>
        ELSE Reverted("makePayment", sender, valueAttoDai,
                      IF phase \notin PaymentPhases THEN WrongPhase
                      ELSE IF valueDai = REVERT THEN NotWholeDai
                      ELSE SafeMathOrERC20)

\* redeemTokens(_amountTokens) called by sender.
RedeemTokens(sender, amountTokens) ==
    LET checks ==
            /\ phase = "Finalized"
            /\ amountTokens > 0
        payout == Payout(amountTokens)
        t1 == TokenBurnFrom(Begin, sender, amountTokens)
        t2 == DaiTransfer(t1, sender, payout)
    IN  IF checks /\ t2.ok
        THEN /\ Commit(t2)
             /\ redeemedAttoDai' = redeemedAttoDai + payout
             /\ last' = [Call("redeemTokens", sender, amountTokens, TRUE, FALSE, t2.log,
                           Snapshot(sender)) EXCEPT !.seen = t2.seen]
             /\ UNCHANGED <<recordArguments, registry, marketVars, now, config, loanVars, tokenIsAllowed, netProvidedDai>>
        ELSE Reverted("redeemTokens", sender, amountTokens,
                      IF phase # "Finalized" THEN WrongPhase
                      ELSE IF amountTokens = 0 THEN AmountIsZero
                      ELSE SafeMathOrERC20)

\* A checkExpiration that can be called in any phase.
ExpirationPhases_Any == Phases

\* The phases in which checkExpiration can be called.
ExpirationPhases == {"Funding", "Expired"}

\* checkExpiration() called by sender.
CheckExpiration(sender) ==
    LET ph == TryExpire
    IN  IF ph \in ExpirationPhases
        THEN /\ phase' = ph
             /\ last' = Call("checkExpiration", sender, 0, TRUE, ph = "Expired", <<>>,
                          Snapshot(sender))
             /\ UNCHANGED <<recordArguments, registry, marketVars, now, config, fundedDai, paidDai, attoDaiPerToken, ledgers,
                            tokenIsAllowed, history>>
        ELSE Reverted("checkExpiration", sender, 0, WrongPhase)

(* --------------------------- market library ---------------------------- *)

\* SellPositions: the array of sell positions and, for each token and seller, one
\* plus the index in the array of their sell position, or zero.  Solidity's
\* values[i] is values[i + 1] here.
NoSellPositions ==
    [values |-> <<>>, indices |-> [t \in Tokens |-> [a \in Users |-> 0]]]

\* SellPosition
SellPosition(token, seller, amountTokens, priceNanoDaiPerToken) ==
    [token |-> token, seller |-> seller, amountTokens |-> amountTokens,
     priceNanoDaiPerToken |-> priceNanoDaiPerToken]

\* count
LibCount(self) == Len(self.values)

\* at
LibAt(self, index) == self.values[index + 1]

\* exists
LibExists(self, token, seller) == self.indices[token][seller] # 0

\* get, where the position exists.
LibGet(self, token, seller) == self.values[(self.indices[token][seller] - 1) + 1]

\* add, inside the transaction t.
LibAdd(t, token, seller, amountTokens, priceNanoDaiPerToken) ==
    IF ~t.ok \/ amountTokens = REVERT \/ priceNanoDaiPerToken = REVERT THEN Revert(t)
    ELSE IF t.positions.indices[token][seller] # 0 THEN Revert(t)
    ELSE LET pushed == Append(t.positions.values,
                              SellPosition(token, seller, amountTokens,
                                           priceNanoDaiPerToken))
         IN  [t EXCEPT !.positions.values = pushed,
                       !.positions.indices[token][seller] = Len(pushed)]

\* remove that overwrites the removed slot with the last one and pops, but does
\* not point the moved position's index at its new slot.
LibRemove_IndexNotMoved(t, token, seller) ==
    LET index == SafeSub(t.positions.indices[token][seller], 1)
    IN  IF ~t.ok \/ index = REVERT THEN Revert(t)
        ELSE LET lastPosition == t.positions.values[Len(t.positions.values)]
                 moved == [t.positions.values EXCEPT ![index + 1] = lastPosition]
                 popped == SubSeq(moved, 1, Len(moved) - 1)
             IN  [t EXCEPT !.positions.values = popped,
                           !.positions.indices[token][seller] = 0]

\* remove that frees the slot but keeps the removed pair's index.
LibRemove_IndexKept(t, token, seller) ==
    LET index == SafeSub(t.positions.indices[token][seller], 1)
    IN  IF ~t.ok \/ index = REVERT THEN Revert(t)
        ELSE LET lastPosition == t.positions.values[Len(t.positions.values)]
                 moved == [t.positions.values EXCEPT ![index + 1] = lastPosition]
                 pointed == [t.positions.indices EXCEPT
                                ![lastPosition.token][lastPosition.seller] = index + 1]
                 popped == SubSeq(moved, 1, Len(moved) - 1)
             IN  [t EXCEPT !.positions.values = popped,
                           !.positions.indices = pointed]

\* remove, inside the transaction t: the last position takes the slot of the
\* removed one.
LibRemove(t, token, seller) ==
    LET index == SafeSub(t.positions.indices[token][seller], 1)
    IN  IF ~t.ok \/ index = REVERT THEN Revert(t)
        ELSE LET lastPosition == t.positions.values[Len(t.positions.values)]
                 moved == [t.positions.values EXCEPT ![index + 1] = lastPosition]
                 pointed == [t.positions.indices EXCEPT
                                ![lastPosition.token][lastPosition.seller] = index + 1]
                 popped == SubSeq(moved, 1, Len(moved) - 1)
             IN  [t EXCEPT !.positions.values = popped,
                           !.positions.indices = [pointed EXCEPT ![token][seller] = 0]]

(* ------------------------------ market --------------------------------- *)

\* The reason strings of the market's require statements.
TokenNotAllowed == "_token not allowed by the market"
PositionExists == "sell position already exists"
PositionDoesNotExist == "sell position does not exist"
IncreaseIsZero == "_increaseAmount is zero"
DecreaseIsZero == "_decreaseAmount is zero"
DecreaseExceeds == "_decreaseAmount exceeds amount for sale"
AmountExceeds == "_amountTokens exceeds amount for sale"
PriceMismatch == "_priceAttoDaiPerToken does not match the current price"
FeeMismatch == "_feeAttoDaiPerNanoDai does not match the current fee"
NotWholeNanoDai == "not a positive multiple of 1 nano-Dai"

\* What `last` records of a call to the market.
MarketCall(op, sender, seller, amountTokens, price, fee, ok, transfers, before) ==
    [Call(op, sender, amountTokens, ok, FALSE, transfers, before)
        EXCEPT !.seller = seller, !.price = price, !.fee = fee]

\* A call to the market that reverted with reason error.
MarketReverted(op, sender, seller, amountTokens, price, fee, error) ==
    /\ last' = IF recordArguments
               THEN [MarketCall(op, sender, seller, amountTokens, price, fee, FALSE,
                                <<>>, NoSnapshot) EXCEPT !.error = error]
               ELSE Call(op, "", 0, FALSE, FALSE, <<>>, NoSnapshot)
    /\ UNCHANGED <<now, config, loanVars, ledgers, tokenIsAllowed, history,
                   recordArguments, registry, marketVars>>

\* A call to the market that succeeded with the transaction t.
MarketSucceeded(t, op, sender, seller, amountTokens, price, fee) ==
    /\ Commit(t)
    /\ sellPositions' = t.positions
    /\ last' = [MarketCall(op, sender, seller, amountTokens, price, fee, TRUE, t.log,
                          Snapshot(sender)) EXCEPT !.seen = t.seen]
    /\ UNCHANGED <<now, config, loanVars, tokenIsAllowed, history, recordArguments,
                   registry, feeAttoDaiPerNanoDai>>

\* A market that writes the amount to the first position of the array, whoever
\* its seller is.
SetAmountTokens_FirstSlot(t, token, seller, amountTokens) ==
    IF ~t.ok \/ amountTokens = REVERT THEN Revert(t)
    ELSE [t EXCEPT !.positions.values[1].amountTokens = amountTokens]

\* A market whose positions keep the amount they were created with.
SetAmountTokens_Unchanged(t, token, seller, amountTokens) ==
    IF ~t.ok \/ amountTokens = REVERT THEN Revert(t)
    ELSE t

\* position.amountTokens = amountTokens for the position of token and seller.
SetAmountTokens(t, token, seller, amountTokens) ==
    IF ~t.ok \/ amountTokens = REVERT THEN Revert(t)
    ELSE [t EXCEPT !.positions.values[t.positions.indices[token][seller]].amountTokens =
                       amountTokens]

\* A repricing that overwrites the price of every position of the order book.
SetPriceNanoDaiPerToken_EveryPosition(t, token, seller, priceNanoDaiPerToken) ==
    IF ~t.ok \/ priceNanoDaiPerToken = REVERT THEN Revert(t)
    ELSE [t EXCEPT !.positions.values =
                       [i \in DOMAIN @ |->
                           [@[i] EXCEPT !.priceNanoDaiPerToken = priceNanoDaiPerToken]]]

\* position.priceNanoDaiPerToken = priceNanoDaiPerToken for the position of token
\* and seller.
SetPriceNanoDaiPerToken(t, token, seller, priceNanoDaiPerToken) ==
    IF ~t.ok \/ priceNanoDaiPerToken = REVERT THEN Revert(t)
    ELSE [t EXCEPT !.positions.values[t.positions.indices[token][seller]]
                       .priceNanoDaiPerToken = priceNanoDaiPerToken]

\* A market that keeps a position whose amount has reached zero.
RemoveIfEmpty_Never(t, token, seller) == t

\* if (position.amountTokens == 0) sellPositions.remove(...)
RemoveIfEmpty(t, token, seller) ==
    IF ~t.ok THEN t
    ELSE IF LibGet(t.positions, token, seller).amountTokens = 0
    THEN LibRemove(t, token, seller)
    ELSE t

\* A market that lets a position be created with no tokens.
NonZeroAmount_Any(amountTokens) == TRUE

\* require(_amountTokens > 0) of createSellPosition.
NonZeroAmount(amountTokens) == amountTokens > 0

\* createSellPosition(token, _amountTokens, _priceAttoDaiPerToken) called by sender.
CreateSellPosition(sender, amountTokens, priceAttoDaiPerToken) ==
    LET priceNanoDaiPerToken == AttoDaiToPositiveWholeNanoDai(priceAttoDaiPerToken)
        exists == LibExists(sellPositions, Token, sender)
        checks ==
            /\ tokenIsAllowed
            /\ ~exists
            /\ NonZeroAmount(amountTokens)
            /\ priceNanoDaiPerToken # REVERT
        t1 == LibAdd(Begin, Token, sender, amountTokens, priceNanoDaiPerToken)
        t2 == MarketTokenTransferFrom(t1, sender, Market, amountTokens)
    IN  IF checks /\ t2.ok
        THEN MarketSucceeded(t2, "createSellPosition", sender, sender, amountTokens,
                             priceAttoDaiPerToken, 0)
        ELSE MarketReverted("createSellPosition", sender, sender, amountTokens,
                            priceAttoDaiPerToken, 0,
                            IF ~tokenIsAllowed THEN TokenNotAllowed
                            ELSE IF exists THEN PositionExists
                            ELSE IF ~NonZeroAmount(amountTokens) THEN AmountIsZero
                            ELSE IF priceNanoDaiPerToken = REVERT THEN NotWholeNanoDai
                            ELSE SafeMathOrERC20)

\* removeSellPosition requiring, as the other operations do, that the token is
\* allowed.
RemoveSellPositionEffects_AllowedOnly(sender) ==
    LET exists == LibExists(sellPositions, Token, sender)
        amountTokens == LibGet(sellPositions, Token, sender).amountTokens
        t1 == LibRemove(Begin, Token, sender)
    IN  IF tokenIsAllowed /\ exists
        THEN MarketTokenTransfer(t1, sender, amountTokens)
        ELSE Revert(Begin)

\* The transaction of removeSellPosition(token) called by sender: its checks, its
\* effects and its interactions.
RemoveSellPositionEffects(sender) ==
    LET exists == LibExists(sellPositions, Token, sender)
        amountTokens == LibGet(sellPositions, Token, sender).amountTokens
        t1 == LibRemove(Begin, Token, sender)
    IN  IF exists THEN MarketTokenTransfer(t1, sender, amountTokens) ELSE Revert(Begin)

\* removeSellPosition(token) called by sender.
RemoveSellPosition(sender) ==
    LET exists == LibExists(sellPositions, Token, sender)
        t2 == RemoveSellPositionEffects(sender)
    IN  IF t2.ok
        THEN MarketSucceeded(t2, "removeSellPosition", sender, sender, 0, 0, 0)
        ELSE MarketReverted("removeSellPosition", sender, sender, 0, 0, 0,
                            IF ~exists THEN PositionDoesNotExist ELSE SafeMathOrERC20)

\* increaseSellPositionAmount(token, _increaseAmount) called by sender.
IncreaseSellPositionAmount(sender, increaseAmount) ==
    LET exists == LibExists(sellPositions, Token, sender)
        checks ==
            /\ tokenIsAllowed
            /\ increaseAmount > 0
            /\ exists
        position == LibGet(sellPositions, Token, sender)
        t1 == SetAmountTokens(Begin, Token, sender,
                              SafeAdd(position.amountTokens, increaseAmount))
        t2 == MarketTokenTransferFrom(t1, sender, Market, increaseAmount)
    IN  IF checks /\ t2.ok
        THEN MarketSucceeded(t2, "increaseSellPositionAmount", sender, sender,
                             increaseAmount, 0, 0)
        ELSE MarketReverted("increaseSellPositionAmount", sender, sender,
                            increaseAmount, 0, 0,
                            IF ~tokenIsAllowed THEN TokenNotAllowed
                            ELSE IF increaseAmount = 0 THEN IncreaseIsZero
                            ELSE IF ~exists THEN PositionDoesNotExist
                            ELSE SafeMathOrERC20)

\* The transaction of decreaseSellPositionAmount(token, _decreaseAmount) called by
\* sender: its checks, its effects and its interactions.
DecreaseSellPositionAmountEffects(sender, decreaseAmount) ==
    LET exists == LibExists(sellPositions, Token, sender)
        position == LibGet(sellPositions, Token, sender)
        checks ==
            /\ tokenIsAllowed
            /\ decreaseAmount > 0
            /\ exists
            /\ decreaseAmount <= position.amountTokens
        t1 == SetAmountTokens(Begin, Token, sender,
                              SafeSub(position.amountTokens, decreaseAmount))
        t2 == RemoveIfEmpty(t1, Token, sender)
    IN  IF checks THEN MarketTokenTransfer(t2, sender, decreaseAmount) ELSE Revert(Begin)

\* decreaseSellPositionAmount(token, _decreaseAmount) called by sender.
DecreaseSellPositionAmount(sender, decreaseAmount) ==
    LET exists == LibExists(sellPositions, Token, sender)
        position == LibGet(sellPositions, Token, sender)
        t3 == DecreaseSellPositionAmountEffects(sender, decreaseAmount)
    IN  IF t3.ok
        THEN MarketSucceeded(t3, "decreaseSellPositionAmount", sender, sender,
                             decreaseAmount, 0, 0)
        ELSE MarketReverted("decreaseSellPositionAmount", sender, sender,
                            decreaseAmount, 0, 0,
                            IF ~tokenIsAllowed THEN TokenNotAllowed
                            ELSE IF decreaseAmount = 0 THEN DecreaseIsZero
                            ELSE IF ~exists THEN PositionDoesNotExist
                            ELSE IF decreaseAmount > position.amountTokens
                            THEN DecreaseExceeds
                            ELSE SafeMathOrERC20)

\* updateSellPositionPrice(token, _newPriceAttoDaiPerToken) called by sender.
UpdateSellPositionPrice(sender, newPriceAttoDaiPerToken) ==
    LET exists == LibExists(sellPositions, Token, sender)
        newPriceNanoDaiPerToken ==
            AttoDaiToPositiveWholeNanoDai(newPriceAttoDaiPerToken)
        checks ==
            /\ tokenIsAllowed
            /\ exists
            /\ newPriceNanoDaiPerToken # REVERT
        t1 == SetPriceNanoDaiPerToken(Begin, Token, sender, newPriceNanoDaiPerToken)
    IN  IF checks /\ t1.ok
        THEN MarketSucceeded(t1, "updateSellPositionPrice", sender, sender, 0,
                             newPriceAttoDaiPerToken, 0)
        ELSE MarketReverted("updateSellPositionPrice", sender, sender, 0,
                            newPriceAttoDaiPerToken, 0,
                            IF ~tokenIsAllowed THEN TokenNotAllowed
                            ELSE IF ~exists THEN PositionDoesNotExist
                            ELSE IF newPriceNanoDaiPerToken = REVERT THEN NotWholeNanoDai
                            ELSE SafeMathOrERC20)

\* The Dai a purchase moves to the seller, in atto-Dai.
PurchasePrice(priceAttoDaiPerToken, amountTokens) ==
    SafeMul(priceAttoDaiPerToken, amountTokens)

\* A fee taken on the atto-Dai of the price instead of on its nano-Dai.
PurchaseFee_OnAttoDai(priceAttoDai) ==
    SafeMul(feeAttoDaiPerNanoDai, priceAttoDai)

\* The Dai a purchase moves to the market's fee recipient, in atto-Dai.
PurchaseFee(priceAttoDai) ==
    SafeMul(feeAttoDaiPerNanoDai, SafeDiv(priceAttoDai, AttoPerNanoDai))

\* A purchase that does not ask whether the token is allowed.
PurchaseTokenIsAllowed_Always == TRUE

\* require(tokenIsAllowed[_token]) of purchase.
PurchaseTokenIsAllowed == tokenIsAllowed

\* A purchase that accepts whatever fee rate the buyer supplies.
FeeMatches_Any(fee) == TRUE

\* require(_feeAttoDaiPerNanoDai == feeAttoDaiPerNanoDai) of purchase.
FeeMatches(fee) == fee = feeAttoDaiPerNanoDai

\* purchase(token, _seller, _amountTokens, _priceAttoDaiPerToken,
\* _feeAttoDaiPerNanoDai) called by sender.
Purchase(sender, seller, amountTokens, priceAttoDaiPerToken, fee) ==
    LET exists == LibExists(sellPositions, Token, seller)
        priceNanoDaiPerToken == AttoDaiToPositiveWholeNanoDai(priceAttoDaiPerToken)
        position == LibGet(sellPositions, Token, seller)
        checks ==
            /\ PurchaseTokenIsAllowed
            /\ amountTokens > 0
            /\ exists
            /\ priceNanoDaiPerToken # REVERT
            /\ amountTokens <= position.amountTokens
            /\ priceNanoDaiPerToken = position.priceNanoDaiPerToken
            /\ FeeMatches(fee)
        t1 == SetAmountTokens(Begin, Token, seller,
                              SafeSub(position.amountTokens, amountTokens))
        t2 == RemoveIfEmpty(t1, Token, seller)
        priceAttoDai == PurchasePrice(priceAttoDaiPerToken, amountTokens)
        feeAttoDai == PurchaseFee(priceAttoDai)
        t3 == MarketDaiTransferFrom(t2, sender, seller, priceAttoDai)
        t4 == MarketDaiTransferFrom(t3, sender, MarketFeeRecipient, feeAttoDai)
        t5 == MarketTokenTransfer(t4, sender, amountTokens)
    IN  IF checks /\ t5.ok
        THEN MarketSucceeded(t5, "purchase", sender, seller, amountTokens,
                             priceAttoDaiPerToken, fee)
        ELSE MarketReverted("purchase", sender, seller, amountTokens,
                            priceAttoDaiPerToken, fee,
                            IF ~PurchaseTokenIsAllowed THEN TokenNotAllowed
                            ELSE IF amountTokens = 0 THEN AmountIsZero
                            ELSE IF ~exists THEN PositionDoesNotExist
                            ELSE IF priceNanoDaiPerToken = REVERT THEN NotWholeNanoDai
                            ELSE IF amountTokens > position.amountTokens
                            THEN AmountExceeds
                            ELSE IF priceNanoDaiPerToken # position.priceNanoDaiPerToken
                            THEN PriceMismatch
                            ELSE IF ~FeeMatches(fee) THEN FeeMismatch
                            ELSE SafeMathOrERC20)

(* ---------------------------- controller ------------------------------- *)

\* A controller whose functions anyone may call.
OnlyOwner_Anyone(sender) == TRUE

\* onlyOwner of the controller's functions: the caller is the operator.
OnlyOwner(sender) == sender = Owner

\* onlyOwner of the loan's and the market's functions: the caller is the
\* controller, which deployed them.
OnlyController(sender) == sender = Controller

\* A setMarketFee that stores a rate other than the one it is given.
SetMarketFee_PlusOne(sender, fee) ==
    IF OnlyOwner(sender) /\ OnlyController(Controller)
    THEN /\ feeAttoDaiPerNanoDai' = fee + 1
         /\ last' = MarketCall("setMarketFee", sender, "", 0, 0, fee, TRUE, <<>>,
                              Snapshot(sender))
         /\ UNCHANGED <<now, config, loanVars, ledgers, tokenIsAllowed, history,
                        recordArguments, registry, sellPositions>>
    ELSE MarketReverted("setMarketFee", sender, "", 0, 0, fee, NotTheOwner)

\* setMarketFee(_marketFeeAttoDaiPerNanoDai) called by sender -> market.setFee(...).
SetMarketFee(sender, fee) ==
    IF OnlyOwner(sender) /\ OnlyController(Controller)
    THEN /\ feeAttoDaiPerNanoDai' = fee
         /\ last' = MarketCall("setMarketFee", sender, "", 0, 0, fee, TRUE, <<>>,
                              Snapshot(sender))
         /\ UNCHANGED <<now, config, loanVars, ledgers, tokenIsAllowed, history,
                        recordArguments, registry, sellPositions>>
    ELSE MarketReverted("setMarketFee", sender, "", 0, 0, fee, NotTheOwner)


\* The reason strings of the loan constructor's require statements.
FeeRecipientIsZero == "_feeRecipient is the zero address"
LoanRecipientIsZero == "_loanRecipient is the zero address"
SecondsIsZero == "_secondsToExpiration is zero"

\* createLoan(_feeRecipient, _loanRecipient, _secondsToExpiration,
\* _fundingFeeAttoDaiPerDai, _paymentFeeAttoDaiPerDai, _requestedValueAttoDai)
\* called by sender -> new TuiChainLoan(...) -> new TuiChainToken(...).  The model
\* holds one loan, so the call is made while the controller has none.
CreateLoan(sender, feeRcp, loanRcp, secondsToExpiration, fundingFee, paymentFee, requestedValueAttoDai) ==
    LET requestedDai == AttoDaiToPositiveWholeDai(requestedValueAttoDai)
        expiration == SafeAdd(now, secondsToExpiration)
        checks ==
            /\ OnlyOwner(sender)
            /\ feeRcp # ZeroAddress
            /\ loanRcp # ZeroAddress
            /\ secondsToExpiration > 0
            /\ requestedDai # REVERT
            /\ expiration # REVERT
    IN  /\ numLoans = 0
        /\ IF checks
           THEN /\ feeRecipient' = feeRcp
                /\ loanRecipient' = loanRcp
                /\ expirationTime' = expiration
                /\ fundingFeeAttoDaiPerDai' = fundingFee
                /\ paymentFeeAttoDaiPerDai' = paymentFee
                /\ requestedValueDai' = requestedDai
                /\ tokenBalance' = [h \in TokenHolders |->
                                       IF h = Loan THEN requestedDai ELSE 0]
                /\ tokenTotalSupply' = requestedDai
                /\ phase' = "Funding"
                /\ fundedDai' = 0
                /\ paidDai' = 0
                /\ attoDaiPerToken' = 0
                /\ numLoans' = numLoans + 1
                /\ loanIsValid' = [loanIsValid EXCEPT ![Loan] = TRUE]
                /\ last' = [Call("createLoan", sender, requestedValueAttoDai, TRUE, FALSE,
                                <<>>, NoSnapshot)
                               EXCEPT !.args = <<feeRcp, loanRcp, secondsToExpiration,
                                                 fundingFee, paymentFee>>]
                /\ UNCHANGED <<recordArguments, marketVars, now, daiBalance, daiAllowance,
                               tokenAllowance, marketDaiAllowance, marketTokenAllowance,
                               tokenIsAllowed, history>>
           ELSE RevertedWith("createLoan", sender, requestedValueAttoDai,
                         <<feeRcp, loanRcp, secondsToExpiration, fundingFee, paymentFee>>,
                         IF ~OnlyOwner(sender) THEN NotTheOwner
                         ELSE IF feeRcp = ZeroAddress THEN FeeRecipientIsZero
                         ELSE IF loanRcp = ZeroAddress THEN LoanRecipientIsZero
                         ELSE IF secondsToExpiration = 0 THEN SecondsIsZero
                         ELSE IF requestedDai = REVERT THEN NotWholeDai
                         ELSE SafeMathOrERC20)

\* cancelLoan(_loan) called by sender -> loan.cancel().
CancelLoan(sender, loan) ==
    LET ph == TryExpire
    IN  IF /\ OnlyOwner(sender)
           /\ IsLoanOfController(loan)
           /\ OnlyController(Controller)
           /\ ph = "Funding"
        THEN /\ phase' = "Canceled"
             /\ last' = [Call("cancelLoan", sender, 0, TRUE, FALSE, <<>>,
                           Snapshot(sender)) EXCEPT !.args = <<loan>>]
             /\ UNCHANGED <<recordArguments, registry, marketVars, now, config, fundedDai, paidDai, attoDaiPerToken, ledgers,
                            tokenIsAllowed, history>>
        ELSE RevertedWith("cancelLoan", sender, 0, <<loan>>,
                      IF ~OnlyOwner(sender) THEN NotTheOwner
                      ELSE IF ~IsLoanOfController(loan) THEN NotALoan
                      ELSE WrongPhase)

\* loan.cancel() called by sender.
Cancel(sender) ==
    LET ph == TryExpire
    IN  IF OnlyController(sender) /\ ph = "Funding"
        THEN /\ phase' = "Canceled"
             /\ last' = Call("cancel", sender, 0, TRUE, FALSE, <<>>, Snapshot(sender))
             /\ UNCHANGED <<recordArguments, registry, marketVars, now, config, fundedDai,
                            paidDai, attoDaiPerToken, ledgers, tokenIsAllowed, history>>
        ELSE Reverted("cancel", sender, 0,
                      IF ~OnlyController(sender) THEN NotTheOwner ELSE WrongPhase)

\* finalizeLoan(_loan) called by sender -> loan.finalize(), market.removeToken(token).
FinalizeLoan(sender, loan) ==
    LET rate == RedemptionRate
    IN  IF /\ OnlyOwner(sender)
           /\ IsLoanOfController(loan)
           /\ OnlyController(Controller)
           /\ phase = "Active"
           /\ rate # REVERT
        THEN /\ phase' = "Finalized"
             /\ attoDaiPerToken' = rate
             /\ tokenIsAllowed' = RemoveToken
             /\ last' = [Call("finalizeLoan", sender, 0, TRUE, FALSE, <<>>,
                           Snapshot(sender)) EXCEPT !.args = <<loan>>]
             /\ UNCHANGED <<recordArguments, registry, marketVars, now, config, fundedDai, paidDai, ledgers, history>>
        ELSE RevertedWith("finalizeLoan", sender, 0, <<loan>>,
                      IF ~OnlyOwner(sender) THEN NotTheOwner
                      ELSE IF ~IsLoanOfController(loan) THEN NotALoan
                      ELSE IF phase # "Active" THEN WrongPhase
                      ELSE SafeMathOrERC20)

\* loan.finalize() called by sender.
Finalize(sender) ==
    LET rate == RedemptionRate
    IN  IF OnlyController(sender) /\ phase = "Active" /\ rate # REVERT
        THEN /\ phase' = "Finalized"
             /\ attoDaiPerToken' = rate
             /\ last' = Call("finalize", sender, 0, TRUE, FALSE, <<>>, Snapshot(sender))
             /\ UNCHANGED <<recordArguments, registry, marketVars, now, config, fundedDai,
                            paidDai, ledgers, tokenIsAllowed, history>>
        ELSE Reverted("finalize", sender, 0,
                      IF ~OnlyController(sender) THEN NotTheOwner
                      ELSE IF phase # "Active" THEN WrongPhase
                      ELSE SafeMathOrERC20)

\* controller.notifyLoanActivation() called by sender.
CallNotifyLoanActivation(sender) ==
    IF IsLoanOfController(sender) /\ OnlyController(Controller)
    THEN /\ tokenIsAllowed' = NotifyLoanActivation
         /\ last' = Call("notifyLoanActivation", sender, 0, TRUE, FALSE, <<>>,
                         Snapshot(sender))
         /\ UNCHANGED <<recordArguments, registry, marketVars, now, config, loanVars,
                        ledgers, history>>
    ELSE Reverted("notifyLoanActivation", sender, 0, SenderNotALoan)

\* market.addToken(token) called by sender.
CallAddToken(sender) ==
    IF OnlyController(sender)
    THEN /\ tokenIsAllowed' = AddToken
         /\ last' = Call("addToken", sender, 0, TRUE, FALSE, <<>>, Snapshot(sender))
         /\ UNCHANGED <<recordArguments, registry, marketVars, now, config, loanVars,
                        ledgers, history>>
    ELSE Reverted("addToken", sender, 0, NotTheOwner)

\* market.removeToken(token) called by sender.
CallRemoveToken(sender) ==
    IF OnlyController(sender)
    THEN /\ tokenIsAllowed' = RemoveToken
         /\ last' = Call("removeToken", sender, 0, TRUE, FALSE, <<>>, Snapshot(sender))
         /\ UNCHANGED <<recordArguments, registry, marketVars, now, config, loanVars,
                        ledgers, history>>
    ELSE Reverted("removeToken", sender, 0, NotTheOwner)

\* market.setFee(_feeAttoDaiPerNanoDai) called by sender.
SetFee(sender, fee) ==
    IF OnlyController(sender)
    THEN /\ feeAttoDaiPerNanoDai' = fee
         /\ last' = MarketCall("setFee", sender, "", 0, 0, fee, TRUE, <<>>,
                              Snapshot(sender))
         /\ UNCHANGED <<now, config, loanVars, ledgers, tokenIsAllowed, history,
                        recordArguments, registry, sellPositions>>
    ELSE MarketReverted("setFee", sender, "", 0, 0, fee, NotTheOwner)

(* ---------------------------- environment ------------------------------ *)

\* Users grant their allowances before the first call to the loan, the market or
\* the controller.
NoCallYet ==
    last.op \in {"createLoan", "daiApprove", "tokenApprove", "marketDaiApprove",
                 "marketTokenApprove"}

\* dai.approve(loan, amount) called by owner.
DaiApprove(owner, amount) ==
    /\ NoCallYet
    /\ daiAllowance' = [daiAllowance EXCEPT ![owner] = amount]
    /\ last' = Call("daiApprove", owner, amount, TRUE, FALSE, <<>>, Snapshot(owner))
    /\ UNCHANGED <<recordArguments, registry, marketVars, now, config, loanVars, daiBalance,
                   tokenBalance, tokenAllowance, tokenTotalSupply, marketDaiAllowance,
                   marketTokenAllowance, tokenIsAllowed, history>>

\* token.approve(loan, amount) called by owner.
TokenApprove(owner, amount) ==
    /\ NoCallYet
    /\ tokenAllowance' = [tokenAllowance EXCEPT ![owner] = amount]
    /\ last' = Call("tokenApprove", owner, amount, TRUE, FALSE, <<>>, Snapshot(owner))
    /\ UNCHANGED <<recordArguments, registry, marketVars, now, config, loanVars, daiBalance,
                   daiAllowance, tokenBalance, tokenTotalSupply, marketDaiAllowance,
                   marketTokenAllowance, tokenIsAllowed, history>>

\* dai.approve(market, amount) called by owner.
MarketDaiApprove(owner, amount) ==
    /\ NoCallYet
    /\ marketDaiAllowance' = [marketDaiAllowance EXCEPT ![owner] = amount]
    /\ last' = Call("marketDaiApprove", owner, amount, TRUE, FALSE, <<>>, Snapshot(owner))
    /\ UNCHANGED <<recordArguments, registry, marketVars, now, config, loanVars, daiBalance,
                   daiAllowance, tokenBalance, tokenAllowance, tokenTotalSupply,
                   marketTokenAllowance, tokenIsAllowed, history>>

\* token.approve(market, amount) called by owner.
MarketTokenApprove(owner, amount) ==
    /\ NoCallYet
    /\ marketTokenAllowance' = [marketTokenAllowance EXCEPT ![owner] = amount]
    /\ last' = Call("marketTokenApprove", owner, amount, TRUE, FALSE, <<>>,
                   Snapshot(owner))
    /\ UNCHANGED <<recordArguments, registry, marketVars, now, config, loanVars, daiBalance,
                   daiAllowance, tokenBalance, tokenAllowance, tokenTotalSupply,
                   marketDaiAllowance, tokenIsAllowed, history>>

\* token.transfer(to, amount) called by holder: the transfer that TuiChainToken
\* inherits from ERC20, by which tokens pass from one user to another without
\* the loan or the market.
TokenTransferTo(holder, to, amount) ==
    IF tokenBalance[holder] >= amount
    THEN /\ tokenBalance' = Move(tokenBalance, holder, to, amount)
         /\ last' = Call("transfer", holder, amount, TRUE, TRUE,
                         << <<"token", holder, to, amount>> >>, Snapshot(holder))
         /\ UNCHANGED <<recordArguments, registry, marketVars, now, config, loanVars,
                        daiBalance, daiAllowance, tokenAllowance, tokenTotalSupply,
                        marketDaiAllowance, marketTokenAllowance, tokenIsAllowed, history>>
    ELSE Reverted("transfer", holder, amount, SafeMathOrERC20)

\* token.burn(amount) called by holder: the burn that TuiChainToken inherits from
\* ERC20Burnable, open to every holder in every phase of the loan.
TokenBurn(holder, amount) ==
    IF tokenBalance[holder] >= amount
    THEN /\ tokenBalance' = [tokenBalance EXCEPT ![holder] = @ - amount]
         /\ tokenTotalSupply' = tokenTotalSupply - amount
         /\ last' = Call("burn", holder, amount, TRUE, FALSE,
                         << <<"token", holder, "0x0", amount>> >>, Snapshot(holder))
         /\ UNCHANGED <<recordArguments, registry, marketVars, now, config, loanVars,
                        daiBalance, daiAllowance, tokenAllowance, marketDaiAllowance,
                        marketTokenAllowance, tokenIsAllowed, history>>
    ELSE Reverted("burn", holder, amount, SafeMathOrERC20)

\* A block with a later timestamp.
Tick ==
    /\ now < MaxTime
    /\ now' = now + 1
    /\ UNCHANGED <<recordArguments, registry, marketVars, config, loanVars, ledgers, tokenIsAllowed, history, last>>

(* --------------------------- specification ----------------------------- *)

\* Fee rates createLoan is given, in atto-Dai per Dai.
FeeRates == {0, 1}

\* The state right after the controller's createLoan, at time 0: the TuiChainLoan
\* constructor has run and the token's entire supply is the loan's.
InitLoan ==
    /\ now = 0
    /\ feeRecipient \in {"treasury", "student"}
    /\ loanRecipient = "student"
    /\ expirationTime \in 1 .. MaxTime
    /\ fundingFeeAttoDaiPerDai \in FeeRates
    /\ paymentFeeAttoDaiPerDai \in FeeRates
    /\ requestedValueDai \in 1 .. MaxRequestedDai
    /\ phase = "Funding"
    /\ fundedDai = 0
    /\ paidDai = 0
    /\ attoDaiPerToken = 0
    /\ daiBalance = [h \in DaiHolders |-> IF h \in Users THEN InitialDai ELSE 0]
    /\ daiAllowance = [u \in Users |-> 0]
    /\ tokenBalance = [h \in TokenHolders |-> IF h = Loan THEN requestedValueDai ELSE 0]
    /\ tokenAllowance = [u \in Users |-> 0]
    /\ tokenTotalSupply = requestedValueDai
    /\ tokenIsAllowed = FALSE
    /\ numLoans = 1
    /\ loanIsValid = [a \in Addresses |-> a = Loan]
    /\ sellPositions = NoSellPositions
    /\ marketDaiAllowance = [u \in Users |-> 0]
    /\ marketTokenAllowance = [u \in Users |-> 0]
    /\ netProvidedDai = [u \in Users |-> 0]
    /\ redeemedAttoDai = 0
    /\ last = Call("createLoan", Owner, 0, TRUE, FALSE, <<>>, NoSnapshot)

Init ==
    /\ InitLoan
    /\ feeAttoDaiPerNanoDai = 1
    /\ recordArguments = FALSE

\* As Init, with `last` keeping the arguments of reverted calls too, for one fee
\* recipient and one pair of fee rates.
InitCalls ==
    /\ InitLoan
    /\ feeRecipient = "treasury"
    /\ fundingFeeAttoDaiPerDai = 1
    /\ paymentFeeAttoDaiPerDai = 1
    /\ feeAttoDaiPerNanoDai = 1
    /\ recordArguments = TRUE

Callers == Users \cup {Owner}

Next ==
    \/ \E u \in Users, v \in Values : ProvideFunds(u, v)
    \/ \E u \in Users, v \in Values : WithdrawFunds(u, v)
    \/ \E u \in Users, v \in Values : MakePayment(u, v)
    \/ \E u \in Users, n \in Amounts : RedeemTokens(u, n)
    \/ \E u \in Users : CheckExpiration(u)
    \/ \E c \in Callers : CancelLoan(c, Loan)
    \/ \E c \in Callers : FinalizeLoan(c, Loan)
    \/ \E u \in Users : DaiApprove(u, InitialDai)
    \/ \E u \in Users : TokenApprove(u, MaxRequestedDai)
    \/ Tick

Spec == Init /\ [][Next]_vars

SpecCalls == InitCalls /\ [][Next]_vars

\* The loan and its token: the calls to the loan and, besides them, the calls
\* token holders make to the token contract itself, for one fee recipient and one
\* pair of fee rates.
InitToken ==
    /\ InitLoan
    /\ feeRecipient = "treasury"
    /\ fundingFeeAttoDaiPerDai = 1
    /\ paymentFeeAttoDaiPerDai = 1
    /\ feeAttoDaiPerNanoDai = 1
    /\ recordArguments = TRUE

NextToken ==
    \/ \E u \in Users, v \in Values : ProvideFunds(u, v)
    \/ \E u \in Users, v \in Values : WithdrawFunds(u, v)
    \/ \E u \in Users, v \in Values : MakePayment(u, v)
    \/ \E u \in Users, n \in Amounts : RedeemTokens(u, n)
    \/ \E u \in Users : CheckExpiration(u)
    \/ \E c \in Callers : CancelLoan(c, Loan)
    \/ \E c \in Callers : FinalizeLoan(c, Loan)
    \/ \E u \in Users : DaiApprove(u, InitialDai)
    \/ \E u \in Users : TokenApprove(u, MaxRequestedDai)
    \/ \E u \in Users, n \in Amounts \ {0} :
           \E to \in Users \ {u} : TokenTransferTo(u, to, n)
    \/ \E u \in Users, n \in Amounts \ {0} : TokenBurn(u, n)
    \/ Tick

SpecToken == InitToken /\ [][NextToken]_vars

\* The market: a loan of the largest requested value is funded, its token is sold
\* on the market and the loan is finalized.  As in the fixture of the market's
\* tests, the users have granted the loan an allowance for their Dai and the
\* market allowances for their Dai and their tokens before the loan is funded.
InitFixture ==
    /\ now = 0
    /\ feeRecipient = "treasury"
    /\ loanRecipient = "student"
    /\ expirationTime = MaxTime
    /\ fundingFeeAttoDaiPerDai = 0
    /\ paymentFeeAttoDaiPerDai = 1
    /\ requestedValueDai = MaxRequestedDai
    /\ phase = "Funding"
    /\ fundedDai = 0
    /\ paidDai = 0
    /\ attoDaiPerToken = 0
    /\ daiBalance = [h \in DaiHolders |-> IF h \in Users THEN InitialDai ELSE 0]
    /\ daiAllowance = [u \in Users |-> InitialDai]
    /\ tokenBalance = [h \in TokenHolders |-> IF h = Loan THEN requestedValueDai ELSE 0]
    /\ tokenAllowance = [u \in Users |-> 0]
    /\ tokenTotalSupply = requestedValueDai
    /\ tokenIsAllowed = FALSE
    /\ netProvidedDai = [u \in Users |-> 0]
    /\ redeemedAttoDai = 0
    /\ numLoans = 1
    /\ loanIsValid = [a \in Addresses |-> a = Loan]
    /\ feeAttoDaiPerNanoDai = 1
    /\ sellPositions = NoSellPositions
    /\ marketDaiAllowance = [u \in Users |-> InitialDai]
    /\ marketTokenAllowance = [u \in Users |-> MaxRequestedDai]
    /\ last = Call("marketTokenApprove", "bob", MaxRequestedDai, TRUE, FALSE, <<>>,
                  NoSnapshot)

\* The user who funds the loan of the market's fixture.
Funder == "alice"

InitMarket ==
    /\ InitFixture
    /\ recordArguments = TRUE

\* The calls that follow a call that did not revert.  A call that reverts changes
\* nothing, so every call made after it is one that could be made in its place:
\* behaviours are followed up to their first call that reverts.
NextMarket ==
    \/ \E w \in 1 .. MaxRequestedDai : last.ok /\ ProvideFunds(Funder, w * AttoPerDai)
    \/ last.ok /\ FinalizeLoan(Owner, Loan)
    \/ \E c \in Callers, f \in MarketFeeRates : last.ok /\ SetMarketFee(c, f)
    \/ \E u \in Users, n \in Amounts, p \in Prices :
           last.ok /\ CreateSellPosition(u, n, p)
    \/ \E u \in Users : last.ok /\ RemoveSellPosition(u)
    \/ \E u \in Users, n \in Amounts : last.ok /\ IncreaseSellPositionAmount(u, n)
    \/ \E u \in Users, n \in Amounts : last.ok /\ DecreaseSellPositionAmount(u, n)
    \/ \E u \in Users, p \in Prices : last.ok /\ UpdateSellPositionPrice(u, p)
    \/ \E u \in Users, a \in Users, n \in Amounts \ {0}, p \in Prices,
          f \in MarketFeeRates :
           last.ok /\ Purchase(u, a, n, p, f)

SpecMarket == InitMarket /\ [][NextMarket]_vars

\* The state right after the controller's constructor, which deploys the market:
\* no loan has been created and nobody has granted an allowance.  The loan's
\* variables hold the zero values of their types until createLoan sets them.
InitController ==
    /\ now = 0
    /\ feeRecipient = ZeroAddress
    /\ loanRecipient = ZeroAddress
    /\ expirationTime = 0
    /\ fundingFeeAttoDaiPerDai = 0
    /\ paymentFeeAttoDaiPerDai = 0
    /\ requestedValueDai = 0
    /\ phase = "Funding"
    /\ fundedDai = 0
    /\ paidDai = 0
    /\ attoDaiPerToken = 0
    /\ daiBalance = [h \in DaiHolders |-> IF h \in Users THEN InitialDai ELSE 0]
    /\ daiAllowance = [u \in Users |-> 0]
    /\ tokenBalance = [h \in TokenHolders |-> 0]
    /\ tokenAllowance = [u \in Users |-> 0]
    /\ tokenTotalSupply = 0
    /\ tokenIsAllowed = FALSE
    /\ netProvidedDai = [u \in Users |-> 0]
    /\ redeemedAttoDai = 0
    /\ numLoans = 0
    /\ loanIsValid = [a \in Addresses |-> FALSE]
    /\ feeAttoDaiPerNanoDai = 1
    /\ sellPositions = NoSellPositions
    /\ marketDaiAllowance = [u \in Users |-> 0]
    /\ marketTokenAllowance = [u \in Users |-> 0]
    /\ last = Call("constructor", Owner, 0, TRUE, FALSE, <<>>, NoSnapshot)
    /\ recordArguments = TRUE

\* The operations that convert an amount of atto-Dai, from the creation of the
\* loan on: the loan is created, one user grants their allowances, funds the
\* loan, pays it and sells and buys its tokens, up to the first call that reverts.
LoanCreated == numLoans = 1 /\ last.ok

NextConversion ==
    \/ \E c \in Callers, v \in Values :
           last.ok /\ CreateLoan(c, "treasury", "student", MaxTime, 1, 1, v)
    \/ LoanCreated /\ DaiApprove(Funder, InitialDai)
    \/ LoanCreated /\ TokenApprove(Funder, MaxRequestedDai)
    \/ LoanCreated /\ MarketDaiApprove(Funder, InitialDai)
    \/ LoanCreated /\ MarketTokenApprove(Funder, MaxRequestedDai)
    \/ \E v \in Values : LoanCreated /\ ProvideFunds(Funder, v)
    \/ \E v \in Values : LoanCreated /\ WithdrawFunds(Funder, v)
    \/ \E v \in Values : LoanCreated /\ MakePayment(Funder, v)
    \/ \E n \in Amounts, p \in Prices : LoanCreated /\ CreateSellPosition(Funder, n, p)
    \/ \E p \in Prices : LoanCreated /\ UpdateSellPositionPrice(Funder, p)
    \/ \E n \in Amounts \ {0}, p \in Prices, f \in MarketFeeRates :
           LoanCreated /\ Purchase(Funder, Funder, n, p, f)

SpecConversion == InitController /\ [][NextConversion]_vars

\* The fee rates, the price and the lifetime that make the arithmetic of the
\* operations overflow: rates and lifetimes up to the largest uint256, and the
\* largest price that is a multiple of 1 nano-Dai.
LargeRates == {1, (MaxUint256 + 1) \div 2, MaxUint256}

LargePrices == {AttoPerNanoDai, MaxUint256 - 1}

LargeSeconds == {MaxTime, MaxUint256}

\* The operations that compute with amounts, called with the largest arguments
\* as with small ones: the operator creates a loan, before or after time has
\* passed; one user grants the allowances, funds the loan, withdraws, pays and
\* redeems, and offers and buys the tokens on the market, whose fee rate the
\* operator sets; up to the first call that reverts.
NextArithmetic ==
    \/ numLoans = 0 /\ last.ok /\ Tick
    \/ \E seconds \in LargeSeconds, ff \in LargeRates, pf \in LargeRates,
          w \in 1 .. MaxRequestedDai :
           last.ok /\ CreateLoan(Owner, "treasury", "student", seconds, ff, pf,
                                 w * AttoPerDai)
    \/ LoanCreated /\ DaiApprove(Funder, InitialDai)
    \/ LoanCreated /\ TokenApprove(Funder, MaxRequestedDai)
    \/ LoanCreated /\ MarketDaiApprove(Funder, InitialDai)
    \/ LoanCreated /\ MarketTokenApprove(Funder, MaxRequestedDai)
    \/ \E w \in 1 .. MaxRequestedDai : LoanCreated /\ ProvideFunds(Funder, w * AttoPerDai)
    \/ \E w \in 1 .. MaxRequestedDai : LoanCreated /\ WithdrawFunds(Funder, w * AttoPerDai)
    \/ \E w \in 1 .. MaxRequestedDai : LoanCreated /\ MakePayment(Funder, w * AttoPerDai)
    \/ LoanCreated /\ FinalizeLoan(Owner, Loan)
    \/ \E n \in Amounts \ {0} : LoanCreated /\ RedeemTokens(Funder, n)
    \/ \E f \in {0} \cup LargeRates : LoanCreated /\ SetMarketFee(Owner, f)
    \/ \E n \in Amounts \ {0}, p \in LargePrices :
           LoanCreated /\ CreateSellPosition(Funder, n, p)
    \/ \E n \in Amounts \ {0} : LoanCreated /\ IncreaseSellPositionAmount(Funder, n)
    \/ \E n \in Amounts \ {0} : LoanCreated /\ DecreaseSellPositionAmount(Funder, n)
    \/ LoanCreated /\ RemoveSellPosition(Funder)
    \/ \E n \in Amounts \ {0}, p \in LargePrices, f \in {0} \cup LargeRates :
           LoanCreated /\ Purchase(Funder, Funder, n, p, f)

SpecArithmetic == InitController /\ [][NextArithmetic]_vars

\* The addresses passed as _loan to cancelLoan and finalizeLoan.
Handles == {Loan, Market, Owner}

\* The calls to the controller, and the calls made to the loan and the market
\* without going through it, by the operator and by the users, from the
\* deployment of the controller on and up to the first call that reverts; one
\* user funds the loan, so that it can be finalized.
NextController ==
    \/ \E c \in Callers, feeRcp \in {ZeroAddress, "treasury"},
          loanRcp \in {ZeroAddress, "student"}, seconds \in {0, MaxTime},
          v \in Values :
           last.ok /\ CreateLoan(c, feeRcp, loanRcp, seconds, 1, 1, v)
    \/ \E c \in Callers, l \in Handles : last.ok /\ CancelLoan(c, l)
    \/ \E c \in Callers, l \in Handles : last.ok /\ FinalizeLoan(c, l)
    \/ \E c \in Callers, f \in MarketFeeRates : last.ok /\ SetMarketFee(c, f)
    \/ \E c \in Callers : LoanCreated /\ Cancel(c)
    \/ \E c \in Callers : LoanCreated /\ Finalize(c)
    \/ \E c \in Callers : last.ok /\ CallNotifyLoanActivation(c)
    \/ \E c \in Callers : last.ok /\ CallAddToken(c)
    \/ \E c \in Callers : last.ok /\ CallRemoveToken(c)
    \/ \E c \in Callers, f \in MarketFeeRates : last.ok /\ SetFee(c, f)
    \/ LoanCreated /\ DaiApprove(Funder, InitialDai)
    \/ \E w \in 1 .. MaxRequestedDai : LoanCreated /\ ProvideFunds(Funder, w * AttoPerDai)

SpecController == InitController /\ [][NextController]_vars



(* ------------------------------ properties ----------------------------- *)

\* The phases of a loan that has not become Active.
NeverActive == {"Funding", "Expired", "Canceled"}

\* C1: whatever the loan operations called and however time passes, the phase
\* changes only along Funding->Expired, Funding->Canceled, Funding->Active and
\* Active->Finalized; so Expired, Canceled and Finalized are never left and no
\* phase is entered twice.
PhaseChanges ==
    {<<"Funding", "Expired">>, <<"Funding", "Canceled">>, <<"Funding", "Active">>,
     <<"Active", "Finalized">>}

PhaseMonotone == [][phase' # phase => <<phase, phase'>> \in PhaseChanges]_vars

\* The loan was funded, became Active and has just been finalized.
PhaseMonotoneWitness ==
    phase = "Finalized" /\ last.op = "finalizeLoan" /\ last.ok

\* C2: 0 <= fundedDai <= requestedValueDai in every reachable state, and
\* fundedDai = requestedValueDai exactly in the phases Active and Finalized.
FundedIffActivated ==
    /\ fundedDai \in 0 .. requestedValueDai
    /\ fundedDai = requestedValueDai <=> phase \in {"Active", "Finalized"}

\* The provideFunds call that brought fundedDai to requestedValueDai activated the loan.
FundedIffActivatedWitness ==
    /\ last.op = "provideFunds" /\ last.ok
    /\ last.before.fundedDai < requestedValueDai
    /\ fundedDai = requestedValueDai
    /\ phase = "Active"

\* C3 as stated: attoDaiPerToken is zero if and only if the phase is not Finalized.
RateZeroIffNotFinalized == attoDaiPerToken = 0 <=> phase # "Finalized"

\* C3, amended: attoDaiPerToken is zero in every phase but Finalized; in Finalized
\* it is zero exactly when paidDai in atto-Dai is less than requestedValueDai.
RateZeroUnlessFinalized ==
    /\ phase # "Finalized" => attoDaiPerToken = 0
    /\ phase = "Finalized" =>
           (attoDaiPerToken = 0 <=> paidDai * AttoPerDai < requestedValueDai)

\* A loan finalized with payments made has a rate other than zero.
RateZeroUnlessFinalizedWitness ==
    phase = "Finalized" /\ paidDai > 0 /\ attoDaiPerToken > 0

\* C4 as stated: before the loan becomes Active it holds fundedDai x 1e18 atto-Dai.
LoanHoldsFundedDai ==
    phase \in NeverActive => daiBalance[Loan] = fundedDai * AttoPerDai

\* C4, amended: before the loan becomes Active it holds fundedDai x 1e18 atto-Dai
\* plus the funding fee on fundedDai, which it keeps until activation.
LoanHoldsFundedDaiAndFees ==
    phase \in NeverActive =>
        daiBalance[Loan] = fundedDai * (AttoPerDai + fundingFeeAttoDaiPerDai)

\* Funds were provided with a funding fee, withdrawn and provided again: the
\* funder has spent more allowance than the loan now holds of their Dai.
LoanHoldsFundedDaiAndFeesWitness ==
    /\ phase = "Funding"
    /\ fundingFeeAttoDaiPerDai > 0
    /\ fundedDai > 0
    /\ last.op = "provideFunds" /\ last.ok
    /\ InitialDai - daiAllowance[last.sender] > daiBalance[Loan]

\* C5: once Finalized, the Dai paid out by redeemTokens plus the Dai the loan holds
\* is paidDai x 1e18; when every token has been redeemed the loan holds
\* paidDai x 1e18 - attoDaiPerToken x requestedValueDai, less than requestedValueDai.
RedemptionConservation ==
    phase = "Finalized" =>
        /\ redeemedAttoDai + daiBalance[Loan] = paidDai * AttoPerDai
        /\ tokenTotalSupply = 0 =>
               /\ daiBalance[Loan] =
                      paidDai * AttoPerDai - attoDaiPerToken * requestedValueDai
               /\ daiBalance[Loan] < requestedValueDai

\* Every token has been redeemed and a truncation remainder is left in the loan.
RedemptionConservationWitness ==
    /\ phase = "Finalized"
    /\ tokenTotalSupply = 0
    /\ redeemedAttoDai > 0
    /\ daiBalance[Loan] > 0


\* A step that is a call of op (a call that succeeds always changes `last`, whose
\* snapshot differs from that of the call before; a step that leaves `last` as it
\* was is the passage of time or changes nothing).
Called(op) == last' # last /\ last'.op = op

\* A step that is a successful call of op.
Succeeded(op) == Called(op) /\ last'.ok

\* The whole Dai in v atto-Dai.
WholeDai(v) == v \div AttoPerDai

\* v is a positive multiple of 1 Dai.
IsWholeDai(v) == v > 0 /\ v % AttoPerDai = 0

RECURSIVE SumOver(_, _)
\* The sum of f over the set S.
SumOver(S, f) ==
    IF S = {} THEN 0
    ELSE LET x == CHOOSE y \in S : TRUE IN f[x] + SumOver(S \ {x}, f)

DueOnActivation(h) ==
    (IF h = loanRecipient THEN requestedValueDai * AttoPerDai ELSE 0)
    + (IF h = feeRecipient THEN fundingFeeAttoDaiPerDai * requestedValueDai ELSE 0)

ProvideFundsMoves ==
    [][Succeeded("provideFunds") =>
        LET u == last'.sender
            v == last'.value
            w == WholeDai(v)
            total == v + fundingFeeAttoDaiPerDai * w
        IN  /\ IsWholeDai(v)
            /\ fundedDai' = fundedDai + w
            /\ last'.transfers[1] = <<"dai", u, Loan, total>>
            /\ last'.transfers[2] = <<"token", Loan, u, w>>
            /\ tokenBalance'[u] = tokenBalance[u] + w
            /\ tokenBalance'[Loan] = tokenBalance[Loan] - w
            /\ fundedDai' # requestedValueDai =>
                   /\ Len(last'.transfers) = 2
                   /\ daiBalance'[u] = daiBalance[u] - total
                   /\ daiBalance'[Loan] = daiBalance[Loan] + total]_vars

\* Funds were provided to a loan with a funding fee without completing the funding.
ProvideFundsMovesWitness ==
    /\ last.op = "provideFunds" /\ last.ok
    /\ fundingFeeAttoDaiPerDai > 0
    /\ phase = "Funding"
    /\ daiBalance[last.sender] = last.before.dai - (AttoPerDai + fundingFeeAttoDaiPerDai)

\* C8: a successful withdrawFunds(v), with w = v / 1e18, lowers fundedDai by exactly
\* w, returns exactly v + fundingFeeAttoDaiPerDai x w atto-Dai to the caller and
\* takes exactly w tokens back from the caller; when it follows a provideFunds(v)
\* of the same caller it restores fundedDai and the caller's Dai and token balances.
WithdrawFundsInverts ==
    [][Succeeded("withdrawFunds") =>
        LET u == last'.sender
            v == last'.value
            w == WholeDai(v)
            total == v + fundingFeeAttoDaiPerDai * w
        IN  /\ IsWholeDai(v)
            /\ fundedDai' = fundedDai - w
            /\ last'.transfers = << <<"dai", Loan, u, total>>, <<"token", u, Loan, w>> >>
            /\ daiBalance'[u] = daiBalance[u] + total
            /\ daiBalance'[Loan] = daiBalance[Loan] - total
            /\ tokenBalance'[u] = tokenBalance[u] - w
            /\ tokenBalance'[Loan] = tokenBalance[Loan] + w
            /\ (last.op = "provideFunds" /\ last.ok /\ last.sender = u /\ last.value = v) =>
                   /\ fundedDai' = last.before.fundedDai
                   /\ daiBalance'[u] = last.before.dai
                   /\ tokenBalance'[u] = last.before.tok]_vars

\* withdrawFunds(v) has succeeded for a caller whose balances are again those of
\* before the provideFunds(v) that went before it, with a funding fee.
WithdrawFundsInvertsWitness ==
    /\ last.op = "withdrawFunds" /\ last.ok
    /\ fundingFeeAttoDaiPerDai > 0
    /\ phase = "Funding"
    /\ daiBalance[last.sender] = InitialDai
    /\ daiAllowance[last.sender] =
           InitialDai - (last.value + fundingFeeAttoDaiPerDai * WholeDai(last.value))
    /\ tokenBalance[last.sender] = 0
    /\ fundedDai = 0

\* C9: while the loan has not become Active, fundedDai is the sum over all callers
\* of the whole Dai provided minus the whole Dai withdrawn.
FundedIsNetProvided ==
    phase \in NeverActive => fundedDai = SumOver(Users, netProvidedDai)

\* One funder has provided and withdrawn, after which the other one has provided.
FundedIsNetProvidedWitness ==
    /\ phase = "Funding"
    /\ last.op = "provideFunds" /\ last.ok
    /\ fundedDai > 0
    /\ \E u \in Users : u # last.sender /\ daiAllowance[u] \in 1 .. InitialDai - 1

\* What a call that fails leaves as it was.
Untouched ==
    UNCHANGED <<now, config, loanVars, ledgers, tokenIsAllowed, history, registry, marketVars>>

\* C10: provideFunds fails when fundedDai plus the whole Dai provided would exceed
\* requestedValueDai, and withdrawFunds fails when the whole Dai withdrawn exceed
\* fundedDai or the caller holds fewer tokens than that; fundedDai, the phase and
\* all balances are then as they were.
ExcessFails ==
    [][LET u == last'.sender
           v == last'.value
       IN  /\ (Called("provideFunds") /\ IsWholeDai(v)
                  /\ fundedDai + WholeDai(v) > requestedValueDai)
                  => (~last'.ok /\ Untouched)
           /\ (Called("withdrawFunds") /\ IsWholeDai(v)
                  /\ (WholeDai(v) > fundedDai \/ tokenBalance[u] < WholeDai(v)))
                  => (~last'.ok /\ Untouched)]_vars

\* withdrawFunds has just failed, before the deadline, for a caller with an
\* allowance who asked for no more than fundedDai but holds too few tokens.
ExcessFailsWitness ==
    /\ last.op = "withdrawFunds" /\ ~last.ok
    /\ phase = "Funding" /\ now < expirationTime
    /\ IsWholeDai(last.value)
    /\ WholeDai(last.value) <= fundedDai
    /\ tokenAllowance[last.sender] >= WholeDai(last.value)
    /\ tokenBalance[last.sender] < WholeDai(last.value)

\* A call that fails with the reason "wrong phase" and changes nothing.
FailsWrongPhase == ~last'.ok /\ last'.error = WrongPhase /\ Untouched

\* C11: each loan operation fails with the reason "wrong phase" and changes
\* nothing when the loan, once its deadline is taken into account, is outside the
\* operation's phases: provideFunds unless Funding, withdrawFunds unless Funding,
\* Expired or Canceled, makePayment unless Active, redeemTokens unless Finalized,
\* and finalize, which the operator reaches through finalizeLoan, unless Active.
WrongPhaseFails ==
    [][/\ (Called("provideFunds") /\ TryExpire # "Funding") => FailsWrongPhase
       /\ (Called("withdrawFunds") /\ TryExpire \notin {"Funding", "Expired", "Canceled"})
              => FailsWrongPhase
       /\ (Called("makePayment") /\ phase # "Active") => FailsWrongPhase
       /\ (Called("redeemTokens") /\ phase # "Finalized") => FailsWrongPhase
       /\ (Called("finalizeLoan") /\ phase # "Active") =>
              /\ ~last'.ok /\ Untouched
              /\ last'.sender = Owner => last'.error = WrongPhase]_vars

\* makePayment of a whole Dai has just failed with "wrong phase" on a loan in
\* Funding, for a caller whose balance and allowance cover the payment and its fee.
WrongPhaseFailsWitness ==
    /\ last.op = "makePayment" /\ ~last.ok /\ last.error = WrongPhase
    /\ phase = "Funding"
    /\ last.value = AttoPerDai
    /\ daiAllowance[last.sender] >= AttoPerDai + paymentFeeAttoDaiPerDai
    /\ daiBalance[last.sender] >= AttoPerDai + paymentFeeAttoDaiPerDai

\* C12: paidDai never decreases and changes only in a successful makePayment on
\* an Active loan; a successful makePayment(v), with w = v / 1e18, raises paidDai
\* by exactly w, takes v + paymentFeeAttoDaiPerDai x w atto-Dai from the caller,
\* forwards exactly paymentFeeAttoDaiPerDai x w to the fee recipient in the same
\* call and leaves exactly v more atto-Dai in the loan.
PaymentsOnlyRaisePaidDai ==
    [][/\ paidDai' >= paidDai
       /\ paidDai' # paidDai =>
              Succeeded("makePayment") /\ phase = "Active" /\ phase' = "Active"
       /\ Succeeded("makePayment") =>
              LET u == last'.sender
                  v == last'.value
                  w == WholeDai(v)
                  fee == paymentFeeAttoDaiPerDai * w
              IN  /\ IsWholeDai(v)
                  /\ phase = "Active"
                  /\ paidDai' = paidDai + w
                  /\ last'.transfers =
                         << <<"dai", u, Loan, v + fee>>, <<"dai", Loan, feeRecipient, fee>> >>
                  /\ daiBalance'[u] = daiBalance[u] - (v + fee)
                  /\ daiBalance'[feeRecipient] = daiBalance[feeRecipient] + fee
                  /\ daiBalance'[Loan] = daiBalance[Loan] + v
                  /\ \A h \in DaiHolders \ {u, feeRecipient, Loan} :
                         daiBalance'[h] = daiBalance[h]]_vars

\* A payment with a payment fee has just been made on a loan that had been paid
\* before: the loan holds the payments, the fee recipient has had the fee.
PaymentsOnlyRaisePaidDaiWitness ==
    /\ last.op = "makePayment" /\ last.ok
    /\ paymentFeeAttoDaiPerDai > 0
    /\ paidDai > WholeDai(last.value)
    /\ daiBalance[Loan] = paidDai * AttoPerDai
    /\ daiBalance[last.sender] =
           last.before.dai - (last.value + paymentFeeAttoDaiPerDai * WholeDai(last.value))

\* floor(paidDai x 1e18 / requestedValueDai).
FlooredRate == (paidDai * AttoPerDai) \div requestedValueDai

\* C13: a successful finalize sets attoDaiPerToken to floor(paidDai x 1e18 /
\* requestedValueDai) for the paidDai of the moment it is called, and once the
\* loan is Finalized neither attoDaiPerToken nor paidDai changes again, so the
\* rate of a Finalized loan is always that quotient.
RateFixedAtFinalization ==
    [][/\ Succeeded("finalizeLoan") =>
              /\ phase = "Active" /\ phase' = "Finalized"
              /\ attoDaiPerToken' = FlooredRate
              /\ paidDai' = paidDai
       /\ phase = "Finalized" =>
              /\ attoDaiPerToken' = attoDaiPerToken
              /\ paidDai' = paidDai
              /\ attoDaiPerToken = FlooredRate]_vars

\* A loan finalized at a rate that the division truncated, of which tokens have
\* been redeemed since.
RateFixedAtFinalizationWitness ==
    /\ phase = "Finalized"
    /\ attoDaiPerToken > 0
    /\ attoDaiPerToken * requestedValueDai < paidDai * AttoPerDai
    /\ last.op = "redeemTokens" /\ last.ok

\* C14: on a Finalized loan redeemTokens(n) with n > 0, called by a holder of at
\* least n tokens who has granted the loan an allowance of at least n, succeeds,
\* burns exactly n of the caller's tokens and pays the caller exactly
\* attoDaiPerToken x n atto-Dai; redeemTokens(n) fails and changes nothing when
\* n = 0 or the caller holds fewer than n tokens.
RedeemBurnsAndPays ==
    [][Called("redeemTokens") =>
        LET u == last'.sender
            n == last'.value
        IN  /\ (phase = "Finalized" /\ n > 0 /\ tokenBalance[u] >= n
                   /\ tokenAllowance[u] >= n) =>
                   /\ last'.ok
                   /\ last'.transfers = << <<"token", u, "0x0", n>>,
                                           <<"dai", Loan, u, attoDaiPerToken * n>> >>
                   /\ tokenBalance'[u] = tokenBalance[u] - n
                   /\ tokenTotalSupply' = tokenTotalSupply - n
                   /\ \A h \in TokenHolders \ {u} : tokenBalance'[h] = tokenBalance[h]
                   /\ daiBalance'[u] = daiBalance[u] + attoDaiPerToken * n
                   /\ daiBalance'[Loan] = daiBalance[Loan] - attoDaiPerToken * n
            /\ (n = 0 \/ tokenBalance[u] < n) => (~last'.ok /\ Untouched)
            /\ last'.ok => (phase = "Finalized" /\ n > 0 /\ tokenBalance[u] >= n)]_vars

\* Two tokens have just been redeemed at once at a rate other than zero.
RedeemBurnsAndPaysWitness ==
    /\ last.op = "redeemTokens" /\ last.ok
    /\ last.value = 2
    /\ attoDaiPerToken > 0
    /\ tokenBalance[last.sender] = last.before.tok - 2
    /\ daiBalance[last.sender] = last.before.dai + attoDaiPerToken * 2

\* The scales of the two conversions, and the conversion of each scale.
Scales == {AttoPerDai, AttoPerNanoDai}

Converted(a, scale) ==
    IF scale = AttoPerDai
    THEN AttoDaiToPositiveWholeDai(a)
    ELSE AttoDaiToPositiveWholeNanoDai(a)

\* a is a positive multiple of scale.
IsPositiveMultiple(a, scale) == a > 0 /\ a % scale = 0

\* What the conversions are on every amount up to MaxAttoDai.
ConversionIsExact ==
    \A scale \in Scales, a \in 0 .. MaxAttoDai :
        IF IsPositiveMultiple(a, scale)
        THEN /\ Converted(a, scale) = a \div scale
             /\ Converted(a, scale) * scale = a
        ELSE Converted(a, scale) = REVERT

\* The operations that convert their argument with the scale 1e18, and those that
\* convert their price argument with the scale 1e9.
ConvertsValue == {"createLoan", "provideFunds", "withdrawFunds", "makePayment"}

ConvertsPrice == {"createSellPosition", "updateSellPositionPrice", "purchase"}

\* C15: the conversion of an amount a of atto-Dai with scale s, 1e18 for Dai and
\* 1e9 for nano-Dai, succeeds exactly when a > 0 and a mod s = 0, then returns
\* a / s, and that result times s is a; loan creation, provideFunds,
\* withdrawFunds and makePayment fail and change nothing when their value is no
\* positive multiple of 1e18, and createSellPosition, updateSellPositionPrice
\* and purchase when their price is no positive multiple of 1e9; where they
\* succeed, what they store is the converted amount.
ConversionGuardsOperations ==
    [][/\ ConversionIsExact
       /\ \A op \in ConvertsValue :
              (Called(op) /\ ~IsPositiveMultiple(last'.value, AttoPerDai))
                  => (~last'.ok /\ Untouched)
       /\ \A op \in ConvertsPrice :
              (Called(op) /\ ~IsPositiveMultiple(last'.price, AttoPerNanoDai))
                  => (~last'.ok /\ Untouched)
       /\ Succeeded("createLoan") => requestedValueDai' * AttoPerDai = last'.value
       /\ Succeeded("provideFunds") => (fundedDai' - fundedDai) * AttoPerDai = last'.value
       /\ Succeeded("withdrawFunds") => (fundedDai - fundedDai') * AttoPerDai = last'.value
       /\ Succeeded("makePayment") => (paidDai' - paidDai) * AttoPerDai = last'.value
       /\ (Succeeded("createSellPosition") \/ Succeeded("updateSellPositionPrice")) =>
              LibGet(sellPositions', Token, last'.sender).priceNanoDaiPerToken
                  * AttoPerNanoDai = last'.price
       /\ Succeeded("purchase") =>
              LibGet(sellPositions, Token, last'.seller).priceNanoDaiPerToken
                  * AttoPerNanoDai = last'.price]_vars

\* The price of a sell position has just been refused for being no multiple of
\* 1 nano-Dai, on an Active loan that has been paid and whose token is on sale.
ConversionGuardsOperationsWitness ==
    /\ last.op = "updateSellPositionPrice" /\ ~last.ok
    /\ last.error = NotWholeNanoDai
    /\ last.price = 1
    /\ LibExists(sellPositions, Token, last.sender)
    /\ paidDai > 0

\* The (token, seller) pairs, and those with an index other than zero.
Pairs == Tokens \X Users

IndexedPairs == {pr \in Pairs : sellPositions.indices[pr[1]][pr[2]] # 0}

\* The slots of the array of sell positions.
Slots == 1 .. Len(sellPositions.values)

\* C16: after any sequence of market operations the index map and the array of
\* the order book are in bijection: indices[token][seller] is not zero exactly
\* when the array holds a position of that token and seller, and then
\* values[indices[token][seller] - 1] is that position; every slot of the array
\* is the one its own token and seller point to; and the count is the number of
\* pairs with an index other than zero, so no slot is a duplicate or an orphan.
OrderBookBijection ==
    /\ \A pr \in Pairs :
           LET index == sellPositions.indices[pr[1]][pr[2]]
           IN  /\ index \in 0 .. Len(sellPositions.values)
               /\ index # 0 <=>
                      \E i \in Slots :
                          /\ sellPositions.values[i].token = pr[1]
                          /\ sellPositions.values[i].seller = pr[2]
               /\ index # 0 =>
                      /\ LibAt(sellPositions, index - 1).token = pr[1]
                      /\ LibAt(sellPositions, index - 1).seller = pr[2]
    /\ \A i \in Slots :
           LET position == sellPositions.values[i]
           IN  /\ position.token \in Tokens
               /\ position.seller \in Users
               /\ sellPositions.indices[position.token][position.seller] = i
    /\ LibCount(sellPositions) = Cardinality(IndexedPairs)

\* The funder, whose position came first, has just removed it while the other
\* user had one too: the other user's position is now the only one.
OrderBookBijectionWitness ==
    /\ last.op = "removeSellPosition" /\ last.ok
    /\ last.sender = Funder
    /\ LibCount(sellPositions) = 1
    /\ LibAt(sellPositions, 0).seller # Funder
    /\ marketTokenAllowance[Funder] = 0
    /\ tokenBalance[Funder] = MaxRequestedDai - 1

\* The tokens of token that the live sell positions offer.
OfferedTokens(token) ==
    LET ofToken == {i \in Slots : sellPositions.values[i].token = token}
    IN  SumOver(ofToken, [i \in ofToken |-> sellPositions.values[i].amountTokens])

\* The tokens of token that the market holds. Token is the one token contract.
EscrowedTokens(token) == tokenBalance[Market]

\* C17: for every token, the market holds as many tokens as the live sell
\* positions of that token offer in total, tokens reaching the market only
\* through its own operations.
EscrowMatchesPositions ==
    \A token \in Tokens : EscrowedTokens(token) = OfferedTokens(token)

\* Both users have a position, and together they offer every token of the loan.
EscrowMatchesPositionsWitness ==
    /\ last.ok
    /\ LibCount(sellPositions) = 2
    /\ \A i \in Slots : sellPositions.values[i].amountTokens > 0
    /\ tokenBalance[Market] = MaxRequestedDai

\* C18: a successful purchase of n tokens at price p and fee rate f moves exactly
\* p x n atto-Dai from the buyer to the seller, exactly f x (p x n / 1e9) atto-Dai
\* from the buyer to the market's fee recipient, which is f x (p / 1e9) x n with
\* nothing truncated, and exactly n tokens from the market to the buyer; it takes
\* n off the position's amountTokens and removes the position when none is left.
PurchaseSettles ==
    [][Succeeded("purchase") =>
        LET buyer == last'.sender
            seller == last'.seller
            n == last'.value
            p == last'.price
            f == last'.fee
            priceAttoDai == p * n
            feeAttoDai == f * (priceAttoDai \div AttoPerNanoDai)
            position == LibGet(sellPositions, Token, seller)
        IN  /\ last'.transfers = << <<"dai", buyer, seller, priceAttoDai>>,
                                    <<"dai", buyer, MarketFeeRecipient, feeAttoDai>>,
                                    <<"token", Market, buyer, n>> >>
            /\ priceAttoDai % AttoPerNanoDai = 0
            /\ feeAttoDai = f * (p \div AttoPerNanoDai) * n
            /\ daiBalance' = Move(Move(daiBalance, buyer, seller, priceAttoDai),
                                  buyer, MarketFeeRecipient, feeAttoDai)
            /\ buyer # seller =>
                   /\ daiBalance'[buyer] = daiBalance[buyer] - priceAttoDai - feeAttoDai
                   /\ daiBalance'[seller] = daiBalance[seller] + priceAttoDai
            /\ daiBalance'[MarketFeeRecipient] =
                   daiBalance[MarketFeeRecipient] + feeAttoDai
            /\ tokenBalance' = Move(tokenBalance, Market, buyer, n)
            /\ tokenBalance'[Market] = tokenBalance[Market] - n
            /\ tokenBalance'[buyer] = tokenBalance[buyer] + n
            /\ LibExists(sellPositions, Token, seller)
            /\ IF position.amountTokens = n
               THEN ~LibExists(sellPositions', Token, seller)
               ELSE /\ LibExists(sellPositions', Token, seller)
                    /\ LibGet(sellPositions', Token, seller) =
                           [position EXCEPT !.amountTokens = @ - n]
            /\ LibCount(sellPositions') =
                   LibCount(sellPositions) - (IF position.amountTokens = n THEN 1 ELSE 0)
    ]_vars

\* A user has bought every token of another user's position at a price of two
\* nano-Dai and a fee rate of one: the fee was paid and the position is gone.
PurchaseSettlesWitness ==
    /\ last.op = "purchase" /\ last.ok
    /\ last.sender # last.seller
    /\ last.value = 1
    /\ last.price = 2 * AttoPerNanoDai
    /\ last.fee = 1
    /\ daiBalance[MarketFeeRecipient] >= 2
    /\ ~LibExists(sellPositions, Token, last.seller)

\* C19: purchase fails, changing no position and no balance, whenever the seller
\* has no position, the amount exceeds what the position still offers, the price
\* supplied is not the position's current price, or the fee rate supplied is not
\* the market's fee rate when the call executes, whether or not the seller has
\* repriced or the operator has changed the fee since the buyer looked.
PurchaseFailsOnMismatch ==
    [][Called("purchase") =>
        LET seller == last'.seller
            position == LibGet(sellPositions, Token, seller)
            mismatch ==
                \/ ~LibExists(sellPositions, Token, seller)
                \/ last'.value > position.amountTokens
                \/ last'.price # position.priceNanoDaiPerToken * AttoPerNanoDai
                \/ last'.fee # feeAttoDaiPerNanoDai
        IN  mismatch => (~last'.ok /\ Untouched)
    ]_vars

\* The operator has lowered the fee rate from the one the market was deployed
\* with, and a purchase at the position's price and the old fee rate has failed
\* for the fee alone.
PurchaseFailsOnMismatchWitness ==
    /\ last.op = "purchase" /\ ~last.ok
    /\ last.error = FeeMismatch
    /\ last.fee = 1 /\ feeAttoDaiPerNanoDai = 0
    /\ LibExists(sellPositions, Token, last.seller)
    /\ last.value <= LibGet(sellPositions, Token, last.seller).amountTokens
    /\ last.price = LibGet(sellPositions, Token, last.seller).priceNanoDaiPerToken
                        * AttoPerNanoDai

\* The operations a seller calls on the position of a token the seller has.
OnOwnPosition ==
    {"increaseSellPositionAmount", "decreaseSellPositionAmount",
     "updateSellPositionPrice", "removeSellPosition"}

\* C20: createSellPosition fails when the caller already has a position for the
\* token or the amount is zero, so a (token, seller) pair has at most one
\* position; increasing, decreasing, repricing and removing fail when the caller
\* has none; decreasing also fails when the decrease exceeds the position's
\* amount; and a call that fails leaves the state as it was.
PositionCallsFail ==
    [][LET caller == last'.sender
           exists == LibExists(sellPositions, Token, caller)
           position == LibGet(sellPositions, Token, caller)
       IN  /\ (Called("createSellPosition") /\ (exists \/ last'.value = 0))
                  => ~last'.ok
           /\ (\E op \in OnOwnPosition : Called(op) /\ ~exists)
                  => ~last'.ok
           /\ (Called("decreaseSellPositionAmount") /\ exists
                  /\ last'.value > position.amountTokens)
                  => ~last'.ok
           /\ (\E op \in OnOwnPosition \cup {"createSellPosition"} :
                   Called(op) /\ ~last'.ok)
                  => Untouched
           /\ \A pr \in Pairs :
                  Cardinality({i \in 1 .. Len(sellPositions'.values) :
                                  /\ sellPositions'.values[i].token = pr[1]
                                  /\ sellPositions'.values[i].seller = pr[2]}) <= 1
    ]_vars

\* A seller who has a position has tried to create another one, with tokens and
\* a price that would do for a first one, and failed.
PositionCallsFailWitness ==
    /\ last.op = "createSellPosition" /\ ~last.ok
    /\ last.error = PositionExists
    /\ last.value > 0
    /\ last.price = AttoPerNanoDai
    /\ LibExists(sellPositions, Token, last.sender)
    /\ tokenBalance[last.sender] >= last.value

SameAsRemove(seller) ==
    LET amountTokens == LibGet(sellPositions, Token, seller).amountTokens
        decreased == DecreaseSellPositionAmountEffects(seller, amountTokens)
        removed == RemoveSellPositionEffects(seller)
    IN  /\ decreased.ok = removed.ok
        /\ decreased.ok =>
               /\ decreased.positions = removed.positions
               /\ decreased.tok = removed.tok

\* C22 as stated: from every reachable state, decreaseSellPositionAmount by
\* exactly the position's current amount behaves as removeSellPosition does: the
\* same success or failure, the same resulting order book, the same token
\* balances.
DecreaseAllIsRemove ==
    \A seller \in Users :
        LibExists(sellPositions, Token, seller) => SameAsRemove(seller)

\* C22, amended: while the token is in the market's allow-set,
\* decreaseSellPositionAmount by exactly the position's current amount behaves as
\* removeSellPosition does (both succeed, with the same resulting order book and
\* token balances); once the token is no longer allowed the decrease fails and
\* the removal still succeeds.
DecreaseAllIsRemoveWhileAllowed ==
    \A seller \in Users :
        LibExists(sellPositions, Token, seller) =>
            LET amountTokens == LibGet(sellPositions, Token, seller).amountTokens
                decreased == DecreaseSellPositionAmountEffects(seller, amountTokens)
                removed == RemoveSellPositionEffects(seller)
            IN  /\ removed.ok
                /\ ~LibExists(removed.positions, Token, seller)
                /\ removed.tok = Move(tokenBalance, Market, seller, amountTokens)
                /\ IF tokenIsAllowed THEN decreased.ok /\ SameAsRemove(seller)
                   ELSE ~decreased.ok

\* A seller has decreased a position by its whole amount, which has removed it,
\* while the other user keeps a position of the token, which is still allowed.
DecreaseAllIsRemoveWhileAllowedWitness ==
    /\ last.op = "decreaseSellPositionAmount" /\ last.ok
    /\ ~LibExists(sellPositions, Token, last.sender)
    /\ tokenIsAllowed
    /\ LibCount(sellPositions) = 1

\* The sell positions of the order book, as a set.
PositionsOf(self) == {self.values[i] : i \in 1 .. Len(self.values)}

\* C23: in every reachable state a seller with a live sell position can remove
\* it: removeSellPosition called by that seller succeeds whether or not the token
\* is in the allow-set and whatever the phase of the loan, deletes the position
\* and no other, and returns exactly the position's remaining amount of tokens to
\* the seller, so that no escrowed token stays in the market for good.
SellerCanAlwaysRemove ==
    [][/\ \A seller \in Users :
              LibExists(sellPositions, Token, seller) =>
                  RemoveSellPositionEffects(seller).ok
       /\ (Called("removeSellPosition")
              /\ LibExists(sellPositions, Token, last'.sender)) =>
              LET seller == last'.sender
                  position == LibGet(sellPositions, Token, seller)
              IN  /\ last'.ok
                  /\ ~LibExists(sellPositions', Token, seller)
                  /\ PositionsOf(sellPositions') = PositionsOf(sellPositions) \ {position}
                  /\ last'.transfers =
                         << <<"token", Market, seller, position.amountTokens>> >>
                  /\ tokenBalance' =
                         Move(tokenBalance, Market, seller, position.amountTokens)
                  /\ tokenBalance'[seller] = tokenBalance[seller] + position.amountTokens
                  /\ UNCHANGED <<daiBalance, phase, tokenIsAllowed>>
    ]_vars

\* A seller has removed a position after the loan was finalized and its token
\* taken off the market's allow-set, and has the tokens back.
SellerCanAlwaysRemoveWitness ==
    /\ last.op = "removeSellPosition" /\ last.ok
    /\ phase = "Finalized" /\ ~tokenIsAllowed
    /\ Len(last.transfers) = 1 /\ last.transfers[1][4] > 0
    /\ ~LibExists(sellPositions, Token, last.sender)
    /\ tokenBalance[last.sender] = last.before.tok + last.transfers[1][4]

\* C24: createSellPosition fails, escrowing nothing, for a token that is not in
\* the market's allow-set when it is called; it also fails when the seller holds
\* fewer tokens than the amount listed or has approved fewer to the market.
CreateNeedsAllowedToken ==
    [][Called("createSellPosition") =>
        LET seller == last'.sender
        IN  (\/ ~tokenIsAllowed
             \/ last'.value > tokenBalance[seller]
             \/ last'.value > marketTokenAllowance[seller])
            => /\ ~last'.ok
               /\ Untouched
               /\ tokenBalance'[Market] = tokenBalance[Market]
               /\ ~LibExists(sellPositions', Token, seller)
                      \/ LibExists(sellPositions, Token, seller)
    ]_vars

\* A holder of tokens who has approved them to the market has tried to list them
\* at a price of one nano-Dai after the token was taken off the allow-set, and
\* has failed for that alone.
CreateNeedsAllowedTokenWitness ==
    /\ last.op = "createSellPosition" /\ ~last.ok
    /\ last.error = TokenNotAllowed
    /\ ~tokenIsAllowed /\ phase = "Finalized"
    /\ last.value > 0
    /\ last.value <= tokenBalance[last.sender]
    /\ last.value <= marketTokenAllowance[last.sender]
    /\ last.price = AttoPerNanoDai
    /\ ~LibExists(sellPositions, Token, last.sender)

\* C25: in every reachable state the loan's token is in the market's allow-set
\* exactly when the loan's phase is Active: it is added only by the loan's
\* notification of its activation, inside the provideFunds call that completes
\* the funding, and it is removed by the operation that finalizes the loan.
AllowedIffActive ==
    [][/\ tokenIsAllowed <=> phase = "Active"
       /\ tokenIsAllowed' <=> phase' = "Active"
       /\ (~tokenIsAllowed /\ tokenIsAllowed') =>
              /\ Succeeded("provideFunds")
              /\ fundedDai < requestedValueDai
              /\ fundedDai' = requestedValueDai
       /\ (tokenIsAllowed /\ ~tokenIsAllowed') =>
              /\ Succeeded("finalizeLoan")
              /\ phase' = "Finalized"
    ]_vars

\* The loan was funded, which put its token on the allow-set, and has now been
\* finalized, which took it off.
AllowedIffActiveWitness ==
    /\ last.op = "finalizeLoan" /\ last.ok
    /\ phase = "Finalized"
    /\ fundedDai = requestedValueDai
    /\ ~tokenIsAllowed

\* The controller's functions that only the operator may call, and the loan's
\* and the market's that only the controller may call.
OfOperator == {"createLoan", "cancelLoan", "finalizeLoan", "setMarketFee"}

OfController == {"cancel", "finalize", "addToken", "removeToken", "setFee"}

\* C26: createLoan, cancelLoan, finalizeLoan and setMarketFee fail, changing
\* nothing, unless the caller is the controller's operator; the loan's cancel and
\* finalize and the market's addToken, removeToken and setFee fail for every
\* caller other than the controller, so that the loan is canceled or finalized,
\* the allow-set changed and the fee set only inside a call of the operator's or,
\* for the allow-set, the loan's activation; and notifyLoanActivation fails
\* unless its caller is a loan that this controller created.
OnlyAuthorizedCalls ==
    [][/\ (\E op \in OfOperator : Called(op) /\ last'.sender # Owner)
              => (~last'.ok /\ Untouched)
       /\ (\E op \in OfController : Called(op) /\ last'.sender # Controller)
              => (~last'.ok /\ Untouched)
       /\ (Called("notifyLoanActivation") /\ ~loanIsValid[last'.sender])
              => (~last'.ok /\ Untouched)
       /\ phase' # phase /\ phase' = "Canceled"
              => Succeeded("cancelLoan") /\ last'.sender = Owner
       /\ phase' # phase /\ phase' = "Finalized"
              => Succeeded("finalizeLoan") /\ last'.sender = Owner
       /\ feeAttoDaiPerNanoDai' # feeAttoDaiPerNanoDai
              => Succeeded("setMarketFee") /\ last'.sender = Owner
       /\ tokenIsAllowed' # tokenIsAllowed
              => \/ Succeeded("finalizeLoan") /\ last'.sender = Owner
                 \/ Succeeded("provideFunds") /\ phase' = "Active"
    ]_vars

\* A user has called finalizeLoan for the loan, which is Active and which the
\* operator could finalize, and has failed for not being the operator.
OnlyAuthorizedCallsWitness ==
    /\ last.op = "finalizeLoan" /\ ~last.ok
    /\ last.sender \in Users
    /\ last.error = NotTheOwner
    /\ phase = "Active"
    /\ loanIsValid[Loan]

\* The controller's array loans: the model's one loan, once it is created.
Loans == [i \in 1 .. numLoans |-> Loan]

\* loanIsValid holds of exactly the loans in the array.
ValidIffListed ==
    {a \in Addresses : loanIsValid[a]} = {Loans[i] : i \in 1 .. Len(Loans)}

DeadlineMissed == now >= expirationTime /\ phase \in {"Funding", "Expired"}

\* C28: cancel succeeds only in phase Funding at a time strictly before
\* expirationTime; once the time is expirationTime or later and the loan is not
\* yet Active, every provideFunds and every cancel fails, and that stays so, so
\* that the loan never becomes Active or Canceled afterwards.
DeadlineEnforced ==
    [][/\ Succeeded("cancelLoan") =>
              /\ phase = "Funding" /\ now < expirationTime
              /\ phase' = "Canceled"
       /\ DeadlineMissed =>
              /\ (Called("provideFunds") \/ Called("cancelLoan"))
                     => (~last'.ok /\ Untouched)
              /\ phase' \notin {"Active", "Canceled"}
              /\ DeadlineMissed'
    ]_vars

\* A user who could have funded the loan in time has called provideFunds at the
\* deadline and has failed for the phase; the stored phase is still Funding.
DeadlineEnforcedWitness ==
    /\ last.op = "provideFunds" /\ ~last.ok
    /\ last.error = WrongPhase
    /\ now >= expirationTime
    /\ phase = "Funding"
    /\ IsWholeDai(last.value)
    /\ fundedDai + WholeDai(last.value) <= requestedValueDai
    /\ daiAllowance[last.sender] >= last.value + WholeDai(last.value)
    /\ daiBalance[last.sender] >= last.value + WholeDai(last.value)

\* C29: checkExpiration called while the stored phase is Funding or Expired
\* succeeds; it returns true exactly when the phase is already Expired or the
\* time is expirationTime or later, and the phase is Expired afterwards; it
\* returns false otherwise, and the phase is still Funding; called in phase
\* Canceled, Active or Finalized it fails.
CheckExpirationReturns ==
    [][Called("checkExpiration") =>
        IF phase \in {"Funding", "Expired"}
        THEN /\ last'.ok
             /\ last'.returned <=> (phase = "Expired" \/ now >= expirationTime)
             /\ phase' = IF last'.returned THEN "Expired" ELSE "Funding"
             /\ UNCHANGED <<now, config, fundedDai, paidDai, attoDaiPerToken, ledgers,
                            tokenIsAllowed, history, registry, marketVars>>
        ELSE /\ phase \in {"Canceled", "Active", "Finalized"}
             /\ ~last'.ok
             /\ Untouched
    ]_vars

\* checkExpiration has been called at the deadline on a loan partly funded: it
\* has returned true and the loan is Expired.
CheckExpirationReturnsWitness ==
    /\ last.op = "checkExpiration" /\ last.ok
    /\ last.returned
    /\ phase = "Expired"
    /\ now >= expirationTime
    /\ fundedDai > 0 /\ fundedDai < requestedValueDai

\* C30: every operation is all-or-nothing: a call that fails, whether for a
\* check, the phase, the arithmetic or a transfer of Dai or tokens that the
\* balance or the allowance does not cover, leaves every variable and every
\* balance as before the call; in particular a provideFunds or a cancel refused
\* because the deadline has passed leaves the stored phase Funding.
AllOrNothing ==
    [][/\ (last' # last /\ ~last'.ok) => Untouched
       /\ ((Called("provideFunds") \/ Called("cancelLoan"))
              /\ phase = "Funding" /\ now >= expirationTime)
              => (~last'.ok /\ phase' = "Funding")
    ]_vars

\* The operator has called cancelLoan at the deadline, on a loan partly funded,
\* and has failed for the phase; the stored phase is still Funding.
AllOrNothingWitness ==
    /\ last.op = "cancelLoan" /\ ~last.ok
    /\ last.sender = Owner
    /\ last.error = WrongPhase
    /\ now >= expirationTime
    /\ phase = "Funding"
    /\ fundedDai > 0

\* The operations of the market on a sell position.
MarketOperations ==
    {"createSellPosition", "removeSellPosition", "increaseSellPositionAmount",
     "decreaseSellPositionAmount", "updateSellPositionPrice", "purchase"}

\* The position of token and seller is in the array, at the slot its index names.
Retrievable(self, token, seller) ==
    self.indices[token][seller] \in 1 .. Len(self.values)

\* C31: a market operation on the pair (token, seller) changes the token,
\* seller, amount or price of no other pair's position, also when the removal
\* moves that other position to another slot: it stays retrievable by its key
\* with the same fields, and the count drops by exactly one on a removal;
\* updateSellPositionPrice changes the caller's price only, and
\* increaseSellPositionAmount and decreaseSellPositionAmount change the caller's
\* amount only, by exactly the amount given.
OtherPositionsKept ==
    [][(\E op \in MarketOperations : Succeeded(op)) =>
        LET seller == last'.seller
            own == LibGet(sellPositions, Token, seller)
            ownAfter == LibGet(sellPositions', Token, seller)
            before == LibExists(sellPositions, Token, seller)
            after == LibExists(sellPositions', Token, seller)
        IN  /\ \A pr \in Pairs \ {<<Token, seller>>} :
                   /\ LibExists(sellPositions', pr[1], pr[2]) =
                          LibExists(sellPositions, pr[1], pr[2])
                   /\ LibExists(sellPositions, pr[1], pr[2]) =>
                          /\ Retrievable(sellPositions', pr[1], pr[2])
                          /\ LibGet(sellPositions', pr[1], pr[2]) =
                                 LibGet(sellPositions, pr[1], pr[2])
            /\ LibCount(sellPositions') =
                   LibCount(sellPositions) - (IF before /\ ~after THEN 1 ELSE 0)
                                           + (IF ~before /\ after THEN 1 ELSE 0)
            /\ Succeeded("removeSellPosition") => before /\ ~after
            /\ Succeeded("updateSellPositionPrice") =>
                   /\ before /\ after
                   /\ ownAfter = [own EXCEPT !.priceNanoDaiPerToken =
                                                 last'.price \div AttoPerNanoDai]
            /\ Succeeded("increaseSellPositionAmount") =>
                   /\ before /\ after
                   /\ ownAfter = [own EXCEPT !.amountTokens = @ + last'.value]
            /\ Succeeded("decreaseSellPositionAmount") =>
                   /\ before
                   /\ after = (last'.value < own.amountTokens)
                   /\ after => ownAfter = [own EXCEPT !.amountTokens = @ - last'.value]
    ]_vars

\* A user who bought a token of the funder's position, and offered it in a
\* position of their own, has just removed that position: the funder's position
\* is the only one left, with the amount and the price it had.
OtherPositionsKeptWitness ==
    /\ last.op = "removeSellPosition" /\ last.ok
    /\ last.sender # Funder
    /\ LibCount(sellPositions) = 1
    /\ Retrievable(sellPositions, Token, Funder)
    /\ LibGet(sellPositions, Token, Funder).amountTokens = 1
    /\ LibGet(sellPositions, Token, Funder).priceNanoDaiPerToken = 2
    /\ tokenBalance[last.sender] = 1

\* C32: the loan token's total supply is requestedValueDai at creation, all of it
\* owned by the loan; it never increases, it is requestedValueDai in every phase
\* before Finalized, and afterwards it is requestedValueDai less the tokens
\* redeemed through redeemTokens: no step but a successful redeemTokens changes
\* it, and that one takes off exactly the amount redeemed.
SupplyFixedUntilRedeemed ==
    [][/\ last.op = "createLoan" =>
              /\ tokenTotalSupply = requestedValueDai
              /\ tokenBalance[Loan] = requestedValueDai
       /\ tokenTotalSupply' <= tokenTotalSupply
       /\ phase' # "Finalized" => tokenTotalSupply' = requestedValueDai
       /\ tokenTotalSupply' =
              tokenTotalSupply - (IF Succeeded("redeemTokens") THEN last'.value ELSE 0)
    ]_vars

\* The loan tokens held outside the loan.
TokensOutsideLoan ==
    LET holders == TokenHolders \ {Loan}
    IN  SumOver(holders, [h \in holders |-> tokenBalance[h]])

\* C33: in the phases Funding, Expired and Canceled the loan holds
\* fundedDai x (1e18 + fundingFeeAttoDaiPerDai) atto-Dai and fundedDai tokens are
\* held outside the loan, so that a holder of w tokens who has granted the loan an
\* allowance for them, whoever funded them, withdraws w Dai and its funding fee
\* for them, and the loan can be drained to fundedDai = 0 with no Dai left in it.
FundingIsRefundable ==
    [][/\ phase \in WithdrawPhases =>
              /\ daiBalance[Loan] = fundedDai * (AttoPerDai + fundingFeeAttoDaiPerDai)
              /\ TokensOutsideLoan = fundedDai
              /\ fundedDai = 0 => daiBalance[Loan] = 0
       /\ \A w \in 1 .. MaxRequestedDai :
              (/\ Called("withdrawFunds")
               /\ TryExpire \in WithdrawPhases
               /\ last'.value = w * AttoPerDai
               /\ tokenBalance[last'.sender] >= w
               /\ tokenAllowance[last'.sender] >= w) =>
                  /\ last'.ok
                  /\ last'.transfers =
                         << <<"dai", Loan, last'.sender,
                              w * (AttoPerDai + fundingFeeAttoDaiPerDai)>>,
                            <<"token", last'.sender, Loan, w>> >>
                  /\ fundedDai' = fundedDai - w
    ]_vars

\* C34: solvency.  In phase Active the loan holds paidDai x 1e18 atto-Dai, the
\* funding principal and all fees having left it; in phase Finalized it holds at
\* least attoDaiPerToken x the token's total supply, so that redeemTokens called
\* by a holder with the tokens and the allowance for them never fails for lack of
\* Dai in the loan, in whatever order the holders redeem, and pays
\* attoDaiPerToken for each token.
Solvency ==
    [][/\ phase = "Active" => daiBalance[Loan] = paidDai * AttoPerDai
       /\ phase = "Finalized" => daiBalance[Loan] >= attoDaiPerToken * tokenTotalSupply
       /\ (/\ Called("redeemTokens")
           /\ phase = "Finalized"
           /\ last'.value > 0
           /\ tokenBalance[last'.sender] >= last'.value
           /\ tokenAllowance[last'.sender] >= last'.value) =>
              /\ last'.ok
              /\ last'.transfers =
                     << <<"token", last'.sender, "0x0", last'.value>>,
                        <<"dai", Loan, last'.sender, attoDaiPerToken * last'.value>> >>
              /\ daiBalance'[Loan] >= attoDaiPerToken * tokenTotalSupply'
    ]_vars

\* Both users funded the loan, more was paid to it than its tokens redeem for,
\* and the user whose redemption came second has just redeemed the last token.
SolvencyWitness ==
    /\ last.op = "redeemTokens" /\ last.ok
    /\ phase = "Finalized"
    /\ attoDaiPerToken > 0
    /\ \A u \in Users : netProvidedDai[u] = 1 /\ tokenBalance[u] = 0
    /\ tokenTotalSupply = 0
    /\ redeemedAttoDai = attoDaiPerToken * requestedValueDai
    /\ daiBalance[Loan] = paidDai * AttoPerDai - redeemedAttoDai

\* C35: while the token is not in the market's allow-set, before its loan is
\* Active or after it is Finalized, increaseSellPositionAmount,
\* decreaseSellPositionAmount, updateSellPositionPrice and purchase on the token
\* all fail, also when a matching live position exists, and so does
\* createSellPosition; removeSellPosition is the one operation of the market that
\* can still succeed for it, and does for every seller with a position.
DelistedTokenOnlyRemovable ==
    [][~tokenIsAllowed =>
        /\ \A op \in MarketOperations \ {"removeSellPosition"} :
               Called(op) =>
                   /\ ~last'.ok
                   /\ last'.error = TokenNotAllowed
                   /\ Untouched
        /\ (Called("removeSellPosition")
               /\ LibExists(sellPositions, Token, last'.sender)) => last'.ok
    ]_vars

\* The loan is finalized and a purchase has just failed because the token is not
\* allowed, although the seller has a position with the amount, at the price and
\* for the fee rate asked, and the buyer has the Dai and the allowance for it.
DelistedTokenOnlyRemovableWitness ==
    /\ last.op = "purchase" /\ ~last.ok
    /\ last.error = TokenNotAllowed
    /\ phase = "Finalized" /\ ~tokenIsAllowed
    /\ last.sender # last.seller
    /\ LibExists(sellPositions, Token, last.seller)
    /\ last.value \in 1 .. LibGet(sellPositions, Token, last.seller).amountTokens
    /\ last.price =
           LibGet(sellPositions, Token, last.seller).priceNanoDaiPerToken * AttoPerNanoDai
    /\ last.fee = feeAttoDaiPerNanoDai
    /\ daiBalance[last.sender] >= last.price * last.value * 2
    /\ marketDaiAllowance[last.sender] >= last.price * last.value * 2

\* The sell positions of token that are seller's: one, or none.
PositionsOfSeller(self, token, seller) ==
    {p \in PositionsOf(self) : p.token = token /\ p.seller = seller}

\* C36: a sell position of (token, seller) is created, increased, decreased,
\* repriced or removed only by calls whose sender is that seller; another account
\* reduces the position's amount, or takes tokens the market holds for it, only
\* through a successful purchase, which pays the seller the position's price
\* times the amount taken.
OnlySellerOrPurchase ==
    [][/\ \A s \in Users :
              LET before == PositionsOfSeller(sellPositions, Token, s)
                  after == PositionsOfSeller(sellPositions', Token, s)
              IN  before # after =>
                      /\ last' # last /\ last'.ok
                      /\ last'.op \in MarketOperations
                      /\ last'.seller = s
                      /\ last'.op # "purchase" => last'.sender = s
                      /\ last'.op = "purchase" =>
                             \E p \in before :
                                 LET n == last'.value
                                     paid == p.priceNanoDaiPerToken * AttoPerNanoDai * n
                                 IN  /\ n \in 1 .. p.amountTokens
                                     /\ after = IF n = p.amountTokens THEN {}
                                                ELSE {[p EXCEPT !.amountTokens = @ - n]}
                                     /\ last'.transfers[1] =
                                            <<"dai", last'.sender, s, paid>>
                                     /\ last'.transfers[3] =
                                            <<"token", Market, last'.sender, n>>
                                     /\ last'.sender # s =>
                                            daiBalance'[s] = daiBalance[s] + paid
       /\ tokenBalance'[Market] < tokenBalance[Market] =>
              LET taken == tokenBalance[Market] - tokenBalance'[Market]
              IN  /\ last' # last /\ last'.ok
                  /\ last'.op \in {"removeSellPosition", "decreaseSellPositionAmount",
                                   "purchase"}
                  /\ tokenBalance'[last'.sender] = tokenBalance[last'.sender] + taken
                  /\ OfferedTokens(Token) - taken =
                         SumOver(Slots', [i \in Slots' |->
                                              sellPositions'.values[i].amountTokens])
                  /\ last'.op # "purchase" => last'.sender = last'.seller
    ]_vars

\* A user has bought one of the two tokens of the funder's position at a price
\* of one nano-Dai: the funder was paid it and the position keeps the other token.
OnlySellerOrPurchaseWitness ==
    /\ last.op = "purchase" /\ last.ok
    /\ last.seller = Funder /\ last.sender # Funder
    /\ last.value = 1 /\ last.price = AttoPerNanoDai
    /\ last.transfers[1] = <<"dai", last.sender, Funder, AttoPerNanoDai>>
    /\ PositionsOfSeller(sellPositions, Token, Funder) =
           {SellPosition(Token, Funder, 1, 1)}
    /\ tokenBalance[last.sender] = 1

\* C37: every live sell position has amountTokens > 0 and
\* priceNanoDaiPerToken > 0 in every reachable state: no sequence of create,
\* increase, decrease, update of the price, purchase and remove leaves a position
\* in the array with no tokens or no price.
LivePositionsArePositive ==
    \A i \in Slots :
        /\ sellPositions.values[i].amountTokens > 0
        /\ sellPositions.values[i].priceNanoDaiPerToken > 0

\* A seller has decreased a position of two tokens by one and keeps, alone in the
\* order book, a position of one token with the price it was created at.
LivePositionsArePositiveWitness ==
    /\ last.op = "decreaseSellPositionAmount" /\ last.ok
    /\ last.value = 1
    /\ LibCount(sellPositions) = 1
    /\ LibExists(sellPositions, Token, last.sender)
    /\ LibGet(sellPositions, Token, last.sender).amountTokens = 1
    /\ LibGet(sellPositions, Token, last.sender).priceNanoDaiPerToken > 0
    /\ tokenBalance[last.sender] = 1

\* C38: setMarketFee(r) called by the operator sets the market's fee rate to
\* exactly r and changes no sell position, no entry of the allow-set and no
\* balance; nothing but a setMarketFee of the operator changes the rate, and
\* every successful purchase charges the fee computed from the rate set last.
MarketFeeIsTheOneSet ==
    [][/\ Succeeded("setMarketFee") =>
              /\ last'.sender = Owner
              /\ feeAttoDaiPerNanoDai' = last'.fee
              /\ UNCHANGED <<sellPositions, tokenIsAllowed, ledgers, loanVars, history>>
       /\ feeAttoDaiPerNanoDai' # feeAttoDaiPerNanoDai => Succeeded("setMarketFee")
       /\ Succeeded("purchase") =>
              /\ last'.fee = feeAttoDaiPerNanoDai
              /\ last'.transfers[2] =
                     <<"dai", last'.sender, MarketFeeRecipient,
                       feeAttoDaiPerNanoDai *
                           ((last'.price * last'.value) \div AttoPerNanoDai)>>
    ]_vars

\* The operator has set the fee rate, one at first, to zero, and a user has
\* then bought tokens of another user: no fee was ever paid to the market's fee
\* recipient, and the purchase that paid none has moved the price and the tokens.
MarketFeeIsTheOneSetWitness ==
    /\ last.op = "purchase" /\ last.ok
    /\ last.sender # last.seller
    /\ feeAttoDaiPerNanoDai = 0 /\ last.fee = 0
    /\ last.transfers[2] = <<"dai", last.sender, MarketFeeRecipient, 0>>
    /\ last.transfers[1][4] = last.price * last.value
    /\ daiBalance[MarketFeeRecipient] = 0

\* x is a uint256.
Fits(x) == x \in 0 .. MaxUint256

\* Every amount, rate, time and index the contracts store is a uint256.
StoredAmountsFit ==
    /\ Fits(expirationTime) /\ Fits(requestedValueDai)
    /\ Fits(fundedDai) /\ Fits(paidDai) /\ Fits(attoDaiPerToken)
    /\ Fits(feeAttoDaiPerNanoDai) /\ Fits(tokenTotalSupply)
    /\ \A h \in DaiHolders : Fits(daiBalance[h])
    /\ \A h \in TokenHolders : Fits(tokenBalance[h])
    /\ \A u \in Users :
           /\ Fits(daiAllowance[u]) /\ Fits(tokenAllowance[u])
           /\ Fits(marketDaiAllowance[u]) /\ Fits(marketTokenAllowance[u])
    /\ \A pr \in Pairs : sellPositions.indices[pr[1]][pr[2]] \in 0 .. LibCount(sellPositions)
    /\ \A i \in Slots :
           /\ Fits(sellPositions.values[i].amountTokens)
           /\ Fits(sellPositions.values[i].priceNanoDaiPerToken)

\* C39: every arithmetic step of the operations of the loan and of the market
\* (the running totals in whole Dai, fee = rate x whole Dai, value + fee,
\* price x amount, paidDai x 1e18 at finalization, the slots of the order book)
\* yields the exact mathematical result or makes the whole operation fail with
\* no change of state: what is stored and what is transferred is the result
\* computed on the integers, never that result modulo 2^256.
ArithmeticIsExact ==
    [][LET u == last'.sender
           v == last'.value
           w == v \div AttoPerDai
           fundingTotal == v + fundingFeeAttoDaiPerDai * w
           paymentTotal == v + paymentFeeAttoDaiPerDai * w
           priceAttoDai == last'.price * v
           feeAttoDai == last'.fee * (priceAttoDai \div AttoPerNanoDai)
           own == LibGet(sellPositions, Token, u)
       IN  /\ StoredAmountsFit'
           /\ (last' # last /\ ~last'.ok) => Untouched
           /\ Called("createLoan") =>
                  IF now + last'.args[3] > MaxUint256 THEN ~last'.ok
                  ELSE last'.ok =>
                           /\ expirationTime' = now + last'.args[3]
                           /\ requestedValueDai' * AttoPerDai = v
                           /\ tokenTotalSupply' = requestedValueDai'
           /\ Called("provideFunds") =>
                  IF fundingTotal > MaxUint256 THEN ~last'.ok
                  ELSE last'.ok =>
                           /\ fundedDai' = fundedDai + w
                           /\ last'.transfers[1] = <<"dai", u, Loan, fundingTotal>>
                           /\ last'.transfers[2] = <<"token", Loan, u, w>>
                           /\ fundedDai' = requestedValueDai =>
                                  /\ last'.transfers[3] =
                                         <<"dai", Loan, loanRecipient,
                                           requestedValueDai * AttoPerDai>>
                                  /\ last'.transfers[4] =
                                         <<"dai", Loan, feeRecipient,
                                           fundingFeeAttoDaiPerDai * requestedValueDai>>
           /\ Called("withdrawFunds") =>
                  IF fundingTotal > MaxUint256 THEN ~last'.ok
                  ELSE last'.ok =>
                           /\ fundedDai' = fundedDai - w
                           /\ last'.transfers[1] = <<"dai", Loan, u, fundingTotal>>
                           /\ last'.transfers[2] = <<"token", u, Loan, w>>
           /\ Called("makePayment") =>
                  IF paymentTotal > MaxUint256 THEN ~last'.ok
                  ELSE last'.ok =>
                           /\ paidDai' = paidDai + w
                           /\ last'.transfers[1] = <<"dai", u, Loan, paymentTotal>>
                           /\ last'.transfers[2] =
                                  <<"dai", Loan, feeRecipient,
                                    paymentFeeAttoDaiPerDai * w>>
           /\ Succeeded("finalizeLoan") =>
                  attoDaiPerToken' = (paidDai * AttoPerDai) \div requestedValueDai
           /\ Succeeded("redeemTokens") =>
                  /\ tokenTotalSupply' = tokenTotalSupply - v
                  /\ last'.transfers[2] = <<"dai", Loan, u, attoDaiPerToken * v>>
           /\ Succeeded("createSellPosition") =>
                  /\ LibCount(sellPositions') = LibCount(sellPositions) + 1
                  /\ LibGet(sellPositions', Token, u).amountTokens = v
                  /\ LibGet(sellPositions', Token, u).priceNanoDaiPerToken
                         * AttoPerNanoDai = last'.price
           /\ Succeeded("removeSellPosition") =>
                  LibCount(sellPositions') = LibCount(sellPositions) - 1
           /\ Succeeded("increaseSellPositionAmount") =>
                  LibGet(sellPositions', Token, u).amountTokens = own.amountTokens + v
           /\ Succeeded("decreaseSellPositionAmount") =>
                  IF v = own.amountTokens
                  THEN LibCount(sellPositions') = LibCount(sellPositions) - 1
                  ELSE LibGet(sellPositions', Token, u).amountTokens =
                           own.amountTokens - v
           /\ Called("purchase") =>
                  IF priceAttoDai > MaxUint256 \/ feeAttoDai > MaxUint256 THEN ~last'.ok
                  ELSE last'.ok =>
                           /\ last'.transfers[1] =
                                  <<"dai", u, last'.seller, priceAttoDai>>
                           /\ last'.transfers[2] =
                                  <<"dai", u, MarketFeeRecipient, feeAttoDai>>
                           /\ last'.transfers[3] = <<"token", Market, u, v>>
    ]_vars

\* A loan of the largest value was created at a funding fee rate of half of
\* 2^256 atto-Dai per Dai, and the user who approved the loan for all their Dai
\* has just called provideFunds for the whole loan: the fee does not fit a
\* uint256 and the call has failed, leaving the loan unfunded.
ArithmeticIsExactWitness ==
    /\ last.op = "provideFunds" /\ ~last.ok
    /\ last.error = SafeMathOrERC20
    /\ last.value = MaxRequestedDai * AttoPerDai
    /\ requestedValueDai = MaxRequestedDai
    /\ fundingFeeAttoDaiPerDai * MaxRequestedDai = MaxUint256 + 1
    /\ daiAllowance[last.sender] >= last.value
    /\ daiBalance[last.sender] >= last.value
    /\ phase = "Funding" /\ fundedDai = 0
    /\ tokenBalance[Loan] = requestedValueDai

\* The operations that have interactions after their effects.
InteractingOperations ==
    {"provideFunds", "withdrawFunds", "makePayment", "redeemTokens"}
        \cup MarketOperations

\* C40: effects before interactions.  Within provideFunds, withdrawFunds,
\* makePayment, redeemTokens and every operation of the market, whatever the
\* operation writes to phase, fundedDai, paidDai and the sell positions is
\* written before its first transfer of Dai or tokens and before it notifies the
\* controller: a party that reads the state at one of the transfers or at
\* notifyLoanActivation reads the phase and the accounting values the operation
\* ends with; the phase is Active and fundedDai is requestedValueDai when the
\* controller is notified.
EffectsBeforeInteractions ==
    [][\A op \in InteractingOperations :
           Succeeded(op) =>
               LET activates == op = "provideFunds" /\ phase' = "Active"
               IN  /\ Len(last'.seen) =
                          Len(last'.transfers) + (IF activates THEN 1 ELSE 0)
                   /\ \A i \in DOMAIN last'.seen :
                          /\ last'.seen[i].phase = phase'
                          /\ last'.seen[i].fundedDai = fundedDai'
                          /\ last'.seen[i].paidDai = paidDai'
                          /\ last'.seen[i].positions = sellPositions'
                          /\ last'.seen[i].at =
                                 IF i <= Len(last'.transfers) THEN "transfer"
                                 ELSE "notifyLoanActivation"
                   /\ activates =>
                          /\ last'.seen[Len(last'.seen)].at = "notifyLoanActivation"
                          /\ last'.seen[Len(last'.seen)].phase = "Active"
                          /\ last'.seen[Len(last'.seen)].fundedDai = requestedValueDai
                   /\ op # "updateSellPositionPrice" => Len(last'.seen) > 0
    ]_vars

\* The call of provideFunds that completed the funding has made its four
\* transfers and notified the controller: at the first transfer as at the
\* notification the phase read Active and fundedDai read requestedValueDai.
EffectsBeforeInteractionsWitness ==
    /\ last.op = "provideFunds" /\ last.ok
    /\ phase = "Active"
    /\ Len(last.transfers) = 4 /\ Len(last.seen) = 5
    /\ last.seen[1].at = "transfer"
    /\ last.seen[1].phase = "Active"
    /\ last.seen[1].fundedDai = requestedValueDai
    /\ last.seen[5].at = "notifyLoanActivation"
    /\ last.before.fundedDai < requestedValueDai

====
